---- MODULE Spec2Model ----
(***************************************************************************)
(* DataSync: synchronisation of a PostgreSQL table with a MongoDB          *)
(* collection.  The repository holds several implementations of the same   *)
(* engine; `impl' says which one a behaviour runs:                         *)
(*   "engine"   baseline-workspace/datasync/sync_engine.py   (SyncEngine)  *)
(*   "resolver" baseline-workspace/datasync/sync.py  (DataSync + resolver) *)
(*   "mono"     baseline-workspace/datasync/datasync.py       (DataSync)   *)
(*   "pkg"      baseline-workspace/datasync/datasync/sync.py  (DataSync)   *)
(*   "seq"      sequential-*/datasync/datasync/sync_engine.py (SyncEngine) *)
(*                                                                         *)
(* Values.  A stored value is an integer:                                  *)
(*   Null            Python None / SQL NULL                                *)
(*   0, 1, 2, ...    plain values (0 is the falsy one: 0 or '')            *)
(*   Datetime(t)     a datetime object for instant t                       *)
(*   IsoString(t)    the string datetime.isoformat() gives for instant t   *)
(*   ObjectId(n)     a bson ObjectId                                       *)
(* A record (dict) is a function from field names to values; None (no      *)
(* record) is the function with the empty domain.                          *)
(***************************************************************************)
EXTENDS Integers, Sequences, FiniteSets, TLC

\* ------------------------------------------------------------------ bounds
\* keys are 0..MaxKey; the keys 1..MaxRichKeys carry varied payloads
MaxKey == 3
MaxRichKeys == 2
MaxCycles == 1
MaxMappings == 2
MaxBatch == 2

\* ------------------------------------------------------------------ values
Null == -1
TimeBase == 10
IsoBase == 20
OidBase == 100

Datetime(t) == TimeBase + t
IsoString(t) == IsoBase + t
ObjectId(n) == OidBase + n

IsDatetime(v) == v > TimeBase /\ v < IsoBase
IsIsoString(v) == v > IsoBase /\ v < IsoBase + TimeBase
IsObjectId(v) == v >= OidBase /\ v < 2 * OidBase

\* datetime.isoformat()
isoformat(v) == v - TimeBase + IsoBase
\* datetime.fromisoformat(): the instant of an ISO string
fromisoformat(v) == v - IsoBase
\* str(ObjectId)
StrOfObjectId(v) == v + OidBase

\* Python truthiness of a value: None, 0 and '' are falsy
PyTruthy(v) == v # Null /\ v # 0
\* Python `a or b`
PyOr(a, b) == IF PyTruthy(a) THEN a ELSE b

\* ----------------------------------------------------------------- records
NoRec == [f \in {} |-> Null]
\* dict.get(f): None when the field is absent
Get(d, f) == IF f \in DOMAIN d THEN d[f] ELSE Null
\* d[f] = v
Put(d, f, v) == [x \in DOMAIN d \cup {f} |-> IF x = f THEN v ELSE d[x]]
\* d without the fields of S
Without(d, S) == [x \in DOMAIN d \ S |-> d[x]]
\* {k: v for k, v in d.items() if k in S}
Restrict(d, S) == [x \in DOMAIN d \cap S |-> d[x]]

Keys == 0..MaxKey
RichKeys == 1..MaxRichKeys
Mappings == 1..MaxMappings

\* SyncEngine.SYNC_METADATA_FIELD
SYNC_METADATA_FIELD == "_sync_updated_at"
\* the mapping's primary_key (config default)
PK == "id"
\* information_schema.columns of the synchronised table
PgColumns == {"id", "name", "updated_at", "_sync_updated_at"}

VARIABLES
    impl,        \* which implementation runs
    direction,   \* config: sync direction
    strategy,    \* config: conflict_resolution
    batch_size,  \* config: batch_size
    nmap,        \* config: number of mappings / tables
    down,        \* mappings whose relational store is unreachable
    reject,      \* keys whose document the collection refuses: writing it raises
    pg,          \* pg[m][k]: the row of key k in mapping m's table, or NoRec
    mongo,       \* mongo[m][k]: the document of key k in m's collection, or NoRec
    pc,          \* position of the engine
    mi,          \* index of the mapping being processed
    stats,       \* the cycle's statistics object
    pg_rows,     \* sync_bidirectional: index of relational rows by key
    mongo_docs,  \* sync_bidirectional: index of documents by key
    all_keys,    \* sync_bidirectional: keys not yet iterated
    clock,       \* datetime.now()
    cycle,       \* cycles started so far
    writes,      \* writes[<<store, k>>]: adapter writes of the current mapping
    offset,      \* one-way sync: page offset
    total_rows,  \* one-way sync: the row count read before the loop
    pages,       \* one-way sync: the pages fetched so far (keys of each)
    handled,     \* handled[k]: times the row of key k was converted and resolved
    visited,     \* mappings whose processing was started in this cycle
    results,     \* results[m]: the stats recorded for mapping m, or NoRec
    arg,         \* the row a converter or an upsert is called with
    conv,        \* the results of the conversions of arg, in order
    ups,         \* the results of the upserts of arg, in order
    mode,        \* entry point: "once" (single shot) or "continuous"
    interval,    \* config: seconds between two cycles
    spc,         \* position of the entry point's loop
    running,     \* the loop's stop flag (True until a stop is requested)
    ticks,       \* 1-second sleeps left in the inter-cycle sleep
    started,     \* cycles the loop has called so far
    stop_at,     \* where the loop was when the stop signal arrived, or "none"
    since_stop,  \* sleeps finished and cycles called after the stop signal, and
                 \* the mappings the cycle had visited when it arrived
    exit_status, \* the process exit status, or Null while running
    side_a,      \* a resolver call: the relational (source) record
    side_b,      \* a resolver call: the document (target) record
    verdict,     \* a resolver call: what the resolver returned, or "none"
    verdict2,    \* what a second call with the same arguments returned, or "none"
    attempt,     \* sync_with_retry: the attempt that is running
    coll,        \* concurrent instances: the target collection, in natural order
    inst,        \* concurrent instances: inst[i] is where instance i stands
    found,       \* the two stores as the running cycle found them
    no_pk,       \* tables that have no primary-key constraint
    tables_cfg,  \* config: sync.tables holds "names", "dicts", or nothing ("auto")
    tables,      \* sync_all: the table configs still to be synchronised
    keyed,       \* keyed[m]: the key column table m was synchronised under, or "unsynced"
    retry_attempts, \* config: sync.retry_attempts
    sleeps,      \* sync_with_retry: the retry delays slept so far
    retry_out,   \* sync_with_retry: "stats", "raised" or "None" once it is over, else "none"
    job,         \* notification worker: the job's channel, attempts and max_attempts
    worker_channel, \* the channel the worker was started for, or "all"
    queue_entry, \* the job's entry in queues[channel]: Null, or the delay left (0: ready)
    in_jobs,     \* the job is in the queue's jobs dict
    delivery,    \* the job's delivery record: status and attempts
    wpc,         \* position of the worker: "none", "idle" or "sending"
    sends,       \* calls of the channel provider's send for the job
    outcomes     \* the kinds of result the job's processing has met so far

cfgVars == <<impl, direction, strategy, batch_size, nmap, down, reject>>
bidirVars == <<pg_rows, mongo_docs, all_keys>>
pageVars == <<offset, total_rows, pages, handled>>
histVars == <<visited, results>>
callVars == <<arg, conv, ups>>
resVars == <<side_a, side_b, verdict, verdict2>>
concVars == <<coll, inst>>
schedVars == <<mode, interval, spc, running, ticks, started, stop_at, since_stop, exit_status>>
tableVars == <<no_pk, tables_cfg, tables, keyed>>
retryVars == <<retry_attempts, sleeps, retry_out>>
notifVars == <<job, worker_channel, queue_entry, in_jobs, delivery, wpc, sends, outcomes>>
extVars == <<tableVars, retryVars, notifVars>>

vars == <<impl, direction, strategy, batch_size, nmap, down, reject, pg, mongo, pc, mi,
          stats, pg_rows, mongo_docs, all_keys, clock, cycle, writes,
          offset, total_rows, pages, handled, visited, results, arg, conv, ups,
          mode, interval, spc, running, ticks, started, stop_at, since_stop,
          exit_status, side_a, side_b, verdict, verdict2, attempt, coll, inst, found,
          no_pk, tables_cfg, tables, keyed, retry_attempts, sleeps, retry_out,
          job, worker_channel, queue_entry, in_jobs, delivery, wpc, sends, outcomes>>

EmptyStore == [k \in Keys |-> NoRec]
NoWrites == [w \in {"pg", "mongo"} \X Keys |-> 0]
Present(r) == r # NoRec
\* the store holding the records of p (a function on some of the keys)
StoreOf(p) == [k \in Keys |-> IF k \in DOMAIN p THEN p[k] ELSE NoRec]
NotHandled == [k \in Keys |-> 0]
NoResults == [m \in Mappings |-> NoRec]
PagesIdle == offset = 0 /\ total_rows = 0 /\ pages = <<>> /\ handled = NotHandled

\* ---------------------------------------------------- store adapters
\* a row as SELECT * returns it: every column, NULL where nothing was stored
PgRow(k, name, updated, stamp) ==
    [c \in PgColumns |->
        CASE c = "id" -> k
          [] c = "name" -> name
          [] c = "updated_at" -> updated
          [] OTHER -> stamp]

\* the value a column takes from a bound parameter: text in ISO form is
\* stored as the timestamp it denotes
PgCast(v) == IF IsIsoString(v) THEN Datetime(fromisoformat(v)) ELSE v

\* INSERT INTO t (cols) VALUES (...) ON CONFLICT (pk) DO UPDATE SET c = EXCLUDED.c
\* for the columns of `rec' other than pk; the other columns of an existing row
\* keep their values, those of a new row are NULL
PgUpsertRow(old, rec) ==
    [c \in PgColumns |->
        IF c \in DOMAIN rec /\ (c # PK \/ ~Present(old)) THEN PgCast(rec[c])
        ELSE IF Present(old) THEN old[c] ELSE Null]

\* a faulty variant of the adapter's upsert that stores nothing
MongoUpsertDocNothing(old, doc, k) == old

\* MongoConnection.upsert(collection, doc, pk): insert-or-replace keyed on pk;
\* the collection's native _id stays (a new document gets a fresh one)
MongoUpsertDoc(old, doc, k) ==
    Put(doc, "_id", IF Present(old) /\ "_id" \in DOMAIN old THEN old["_id"] ELSE ObjectId(k))

\* ---------------------------------------------------- SyncEngine (engine)
\* SyncEngine._normalize_doc
NormalizeDoc(doc) ==
    [f \in DOMAIN doc \ (IF "_id" \in DOMAIN doc /\ IsObjectId(doc["_id"]) THEN {"_id"} ELSE {}) |->
        IF IsObjectId(doc[f]) THEN StrOfObjectId(doc[f])
        ELSE IF IsDatetime(doc[f]) THEN isoformat(doc[f])
        ELSE doc[f]]

\* the instant of a timestamp value in _resolve_conflict: a datetime is used
\* as it is, anything else goes through datetime.fromisoformat(str(v))
EngTime(v) == IF IsDatetime(v) THEN v - TimeBase ELSE fromisoformat(v)
EngTimeParses(v) == IsDatetime(v) \/ IsIsoString(v)

\* a resolver that remembers it was called
EngResolveConflictMoody(strat, pg_row, mongo_doc) ==
    IF verdict = "none" THEN "pg" ELSE "mongo"

\* SyncEngine._resolve_conflict: "pg", "mongo", "skip"; "raise" when a
\* timestamp does not parse
EngResolveConflict(strat, pg_row, mongo_doc) ==
    LET pg_updated == PyOr(Get(pg_row, SYNC_METADATA_FIELD), Get(pg_row, "updated_at"))
        mongo_updated == PyOr(Get(mongo_doc, SYNC_METADATA_FIELD), Get(mongo_doc, "updated_at"))
    IN  IF strat = "source_wins" THEN "pg"
        ELSE IF strat = "target_wins" THEN "mongo"
        ELSE IF strat = "latest_wins" THEN
            IF PyTruthy(pg_updated) /\ PyTruthy(mongo_updated) THEN
                IF ~(EngTimeParses(pg_updated) /\ EngTimeParses(mongo_updated)) THEN "raise"
                ELSE IF EngTime(pg_updated) >= EngTime(mongo_updated) THEN "pg"
                ELSE "mongo"
            ELSE IF PyTruthy(pg_updated) THEN "pg"
            ELSE IF PyTruthy(mongo_updated) THEN "mongo"
            ELSE "pg"
        ELSE "skip"

\* the record _upsert_to_pg hands to the INSERT: normalised, filtered to the
\* table's columns, stamped
EngPgRecord(doc, now) ==
    Put(Restrict(NormalizeDoc(doc), PgColumns), SYNC_METADATA_FIELD, now)

\* a faulty variant that stamps the document with a running count
EngMongoRecordCounting(row, now) ==
    Put(NormalizeDoc(row), SYNC_METADATA_FIELD, TimeBase + stats.pg_to_mongo + stats.mongo_to_pg)

\* the document the engine hands to mongo.upsert
EngMongoRecord(row, now) == Put(NormalizeDoc(row), SYNC_METADATA_FIELD, now)

\* faulty variants of the comparison: one keeps the sync stamp, one looks at
\* the key only
EngCompareKeepStamp(rec) == NormalizeDoc(rec)
EngCompareKeyOnly(rec) == Restrict(rec, {PK})

\* the two sides as sync_bidirectional compares them
EngCompare(rec) == Without(NormalizeDoc(rec), {SYNC_METADATA_FIELD})

EngStats0 == [pg_to_mongo |-> 0, mongo_to_pg |-> 0, conflicts |-> 0, errors |-> 0]

Bump(s, f) == [s EXCEPT ![f] = @ + 1]
Wrote(w, store, k) == [w EXCEPT ![<<store, k>>] = @ + 1]

\* SyncEngine.sync_once, entry: a fresh SyncStats, first mapping
EngSyncOnce ==
    /\ impl = "engine"
    /\ pc = "idle"
    /\ cycle < MaxCycles
    /\ cycle' = cycle + 1
    /\ clock' = clock + 1
    /\ stats' = EngStats0
    /\ mi' = 1
    /\ pc' = "mapping"
    /\ visited' = {}
    /\ found' = [pg |-> pg, mongo |-> mongo]
    /\ UNCHANGED <<callVars, attempt, concVars, resVars, schedVars, cfgVars, extVars, pg, mongo, bidirVars, writes, pageVars, results>>

\* sync_bidirectional, the two scans that build the key indexes; a scan of an
\* unreachable store raises, which sync_once catches at the mapping boundary
EngBidirScan ==
    /\ impl = "engine"
    /\ pc = "mapping"
    /\ mi <= nmap
    /\ direction = "bidirectional"
    /\ writes' = NoWrites
    /\ visited' = visited \cup {mi}
    /\ IF mi \in down
       THEN /\ stats' = Bump(stats, "errors")
            /\ mi' = mi + 1
            /\ UNCHANGED <<pc, pg_rows, mongo_docs, all_keys>>
       ELSE /\ pg_rows' = pg[mi]
            /\ mongo_docs' = [k \in Keys |-> IF PK \in DOMAIN mongo[mi][k] THEN mongo[mi][k] ELSE NoRec]
            /\ all_keys' = {k \in Keys : Present(pg[mi][k]) \/ PK \in DOMAIN mongo[mi][k]}
            /\ pc' = "keys"
            /\ UNCHANGED <<stats, mi>>
    /\ UNCHANGED <<callVars, attempt, concVars, found, resVars, schedVars, cfgVars, extVars, pg, mongo, clock, cycle, pageVars, results>>

\* sync_bidirectional, one iteration of `for key in all_keys'
EngBidirKey(key) ==
    /\ impl = "engine"
    /\ pc = "keys"
    /\ key \in all_keys
    /\ all_keys' = all_keys \ {key}
    /\ LET pg_row == pg_rows[key]
           mongo_doc == mongo_docs[key]
           now == Datetime(clock)
           toMongo(row, counted) ==
               IF key \in reject
               THEN /\ stats' = Bump(counted, "errors")
                    /\ UNCHANGED <<pg, mongo, writes>>
               ELSE /\ mongo' = [mongo EXCEPT ![mi][key] = MongoUpsertDoc(@, EngMongoRecord(row, now), key)]
                    /\ stats' = Bump(counted, "pg_to_mongo")
                    /\ writes' = Wrote(writes, "mongo", key)
                    /\ UNCHANGED pg
           toPg(doc, counted) ==
               /\ pg' = [pg EXCEPT ![mi][key] = PgUpsertRow(@, EngPgRecord(doc, now))]
               /\ stats' = Bump(counted, "mongo_to_pg")
               /\ writes' = Wrote(writes, "pg", key)
               /\ UNCHANGED mongo
       IN  IF Present(pg_row) /\ ~Present(mongo_doc) THEN toMongo(pg_row, stats)
           ELSE IF Present(mongo_doc) /\ ~Present(pg_row) THEN toPg(mongo_doc, stats)
           ELSE IF EngCompare(pg_row) # EngCompare(mongo_doc) THEN
               LET winner == EngResolveConflict(strategy, pg_row, mongo_doc)
                   counted == Bump(stats, "conflicts")
               IN  CASE winner = "pg" -> toMongo(pg_row, counted)
                     [] winner = "mongo" -> toPg(mongo_doc, counted)
                     [] winner = "raise" ->
                            /\ stats' = Bump(counted, "errors")
                            /\ UNCHANGED <<pg, mongo, writes>>
                     [] OTHER ->
                            /\ stats' = counted
                            /\ UNCHANGED <<pg, mongo, writes>>
           ELSE UNCHANGED <<pg, mongo, stats, writes>>
    /\ UNCHANGED <<callVars, attempt, concVars, found, resVars, schedVars, cfgVars, extVars, pc, mi, pg_rows, mongo_docs, clock, cycle, pageVars, histVars>>

\* sync_bidirectional returns: sync_once goes on to the next mapping
EngBidirReturn ==
    /\ impl = "engine"
    /\ pc = "keys"
    /\ all_keys = {}
    /\ mi' = mi + 1
    /\ pc' = "mapping"
    /\ UNCHANGED <<callVars, attempt, concVars, found, resVars, schedVars, cfgVars, extVars, pg, mongo, stats, bidirVars, clock, cycle, writes, pageVars, histVars>>

\* sync_once returns its stats after the last mapping
EngSyncOnceReturn ==
    /\ impl = "engine"
    /\ pc = "mapping"
    /\ mi > nmap
    /\ pc' = "idle"
    /\ UNCHANGED <<callVars, attempt, concVars, found, resVars, schedVars, cfgVars, extVars, pg, mongo, mi, stats, bidirVars, clock, cycle, writes, pageVars, histVars>>

\* ------------------------------------------------------------ paged reads
RECURSIVE SortedKeys(_)
SortedKeys(S) ==
    IF S = {} THEN <<>>
    ELSE LET m == CHOOSE x \in S : \A y \in S : x <= y
         IN  <<m>> \o SortedKeys(S \ {m})

Range(s) == {s[i] : i \in 1..Len(s)}
Min(S) == CHOOSE x \in S : \A y \in S : x <= y

\* SELECT COUNT(*) FROM t
RowCount(store) == Cardinality({k \in Keys : Present(store[k])})

\* faulty variants of the paged read: one that starts a row late, one that ignores the limit
FetchBatchLate(store, limit, off) ==
    LET ks == SortedKeys({k \in Keys : Present(store[k])})
        hi == IF off + 1 + limit < Len(ks) THEN off + 1 + limit ELSE Len(ks)
    IN  IF off + 1 >= Len(ks) THEN <<>> ELSE SubSeq(ks, off + 2, hi)
FetchBatchUnlimited(store, limit, off) ==
    LET ks == SortedKeys({k \in Keys : Present(store[k])})
    IN  IF off >= Len(ks) THEN <<>> ELSE SubSeq(ks, off + 1, Len(ks))

\* SELECT * FROM t ORDER BY pk LIMIT limit OFFSET off: the keys of the page, in order
FetchBatch(store, limit, off) ==
    LET ks == SortedKeys({k \in Keys : Present(store[k])})
        hi == IF off + limit < Len(ks) THEN off + limit ELSE Len(ks)
    IN  IF off >= Len(ks) THEN <<>> ELSE SubSeq(ks, off + 1, hi)

\* the per-key counters after every key of ks was counted once more
CountAll(h, ks) == [k \in Keys |-> IF k \in ks THEN h[k] + 1 ELSE h[k]]
WroteAll(w, store, ks) ==
    [x \in DOMAIN w |-> IF x[1] = store /\ x[2] \in ks THEN w[x] + 1 ELSE w[x]]

\* SyncEngine.sync_pg_to_mongo, entry
EngPgToMongo ==
    /\ impl = "engine"
    /\ pc = "mapping"
    /\ mi <= nmap
    /\ direction = "pg_to_mongo"
    /\ offset' = 0
    /\ pages' = <<>>
    /\ handled' = NotHandled
    /\ writes' = NoWrites
    /\ visited' = visited \cup {mi}
    /\ pc' = "page"
    /\ UNCHANGED <<callVars, attempt, concVars, found, resVars, schedVars, cfgVars, extVars, pg, mongo, mi, stats, bidirVars, clock, cycle, total_rows, results>>

\* SyncEngine.sync_pg_to_mongo, one iteration of `while True': a page is
\* fetched; an empty page ends the loop, a failing fetch is caught by sync_once,
\* a failing upsert by the try around the row
EngPgToMongoPage ==
    /\ impl = "engine"
    /\ pc = "page"
    /\ IF mi \in down
       THEN /\ stats' = Bump(stats, "errors")
            /\ mi' = mi + 1
            /\ pc' = "mapping"
            /\ UNCHANGED <<mongo, offset, pages, handled, writes>>
       ELSE LET rows == FetchBatch(pg[mi], batch_size, offset)
                ks == Range(rows)
                now == Datetime(clock)
            IN  /\ pages' = Append(pages, rows)
                /\ IF rows = <<>>
                   THEN /\ mi' = mi + 1
                        /\ pc' = "mapping"
                        /\ UNCHANGED <<mongo, offset, handled, writes, stats>>
                   ELSE /\ mongo' = [mongo EXCEPT ![mi] =
                              [k \in Keys |-> IF k \in ks \ reject
                                              THEN MongoUpsertDoc(@[k], EngMongoRecord(pg[mi][k], now), k)
                                              ELSE @[k]]]
                        /\ stats' = [stats EXCEPT
                              !.pg_to_mongo = @ + Cardinality(ks \ reject),
                              !.errors = @ + Cardinality(ks \cap reject)]
                        /\ handled' = CountAll(handled, ks)
                        /\ writes' = WroteAll(writes, "mongo", ks \ reject)
                        /\ offset' = offset + Len(rows)
                        /\ UNCHANGED <<mi, pc>>
    /\ UNCHANGED <<callVars, attempt, concVars, found, resVars, schedVars, cfgVars, extVars, pg, bidirVars, clock, cycle, total_rows, histVars>>

\* ------------------------------------------- DataSync with ConflictResolver
\* ConflictResolver.STRATEGIES
ResStrategies == {"latest_wins", "postgres_priority", "mongo_priority", "source_wins"}

\* ConflictResolver.__init__: the strategy the resolver keeps
ResStrategy(s) == IF s \notin ResStrategies THEN "latest_wins" ELSE s

ResTimestampFields == <<"updated_at", "updatedAt", "modified_at", "modifiedAt", "_updated">>

\* ConflictResolver._get_timestamp: the instant of the first conventional field
\* holding a datetime or a parsable string; Null when there is none
ResGetTimestamp(doc) ==
    LET hits == {i \in 1..Len(ResTimestampFields) :
                    /\ ResTimestampFields[i] \in DOMAIN doc
                    /\ EngTimeParses(doc[ResTimestampFields[i]])}
    IN  IF hits = {} THEN Null ELSE EngTime(doc[ResTimestampFields[Min(hits)]])

\* ConflictResolver.resolve: TRUE when it returns source_doc (write it),
\* FALSE when it returns None (skip)
ResResolve(strat, source_doc, target_doc, source_type) ==
    IF ~Present(target_doc) THEN TRUE
    ELSE IF strat = "source_wins" THEN TRUE
    ELSE IF strat = "postgres_priority" THEN source_type = "postgres"
    ELSE IF strat = "mongo_priority" THEN source_type = "mongo"
    ELSE IF strat = "latest_wins" THEN
        LET source_time == ResGetTimestamp(source_doc)
            target_time == ResGetTimestamp(target_doc)
        IN  IF source_time = Null /\ target_time = Null THEN TRUE
            ELSE IF source_time = Null THEN FALSE
            ELSE IF target_time = Null THEN TRUE
            ELSE source_time >= target_time
    ELSE TRUE

\* DataSync._convert_pg_to_mongo (sync.py): every field is kept; only Decimal
\* and bytes values, which the modelled rows do not hold, change representation
ResConvertPgToMongo(row) == [f \in DOMAIN row |-> row[f]]

\* a faulty variant of the upsert that stores nothing
MongoSetUpsertNothing(old, doc, k) == old

\* MongoConnection.upsert_batch, one UpdateOne({pk: doc[pk]}, {'$set': doc},
\* upsert=True): the fields of doc are set, the other fields of an existing
\* document stay, a new document gets a native _id
MongoSetUpsert(old, doc, k) ==
    IF Present(old)
    THEN [f \in DOMAIN old \cup DOMAIN doc |-> IF f \in DOMAIN doc THEN doc[f] ELSE old[f]]
    ELSE Put(doc, "_id", ObjectId(k))

ResStats0 ==
    [rows_processed |-> 0, rows_inserted |-> 0, rows_updated |-> 0, rows_skipped |-> 0, errors |-> 0]

\* DataSync.sync_postgres_to_mongo, entry: new stats, the row count is read
\* (a failure is caught by the function's own try/except, which returns)
ResSyncPostgresToMongo ==
    /\ impl = "resolver"
    /\ direction = "postgres_to_mongo"
    /\ pc = "idle"
    /\ cycle < MaxCycles
    /\ cycle' = cycle + 1
    /\ clock' = clock + 1
    /\ offset' = 0
    /\ pages' = <<>>
    /\ handled' = NotHandled
    /\ writes' = NoWrites
    /\ visited' = {mi}
    /\ IF mi \in down
       THEN /\ stats' = Bump(ResStats0, "errors")
            /\ UNCHANGED <<pc, total_rows>>
       ELSE /\ stats' = ResStats0
            /\ total_rows' = RowCount(pg[mi])
            /\ pc' = "page"
    /\ UNCHANGED <<callVars, attempt, concVars, found, resVars, schedVars, cfgVars, extVars, pg, mongo, mi, bidirVars, results>>

\* DataSync.sync_postgres_to_mongo, one iteration of `while offset < total_rows';
\* the unordered bulk write applies the documents the collection takes and then
\* raises for the refused ones, which the function's try/except catches: it returns
ResPage ==
    /\ impl = "resolver"
    /\ pc = "page"
    /\ offset < total_rows
    /\ LET batch == FetchBatch(pg[mi], batch_size, offset)
           ks == Range(batch)
           doc(k) == ResConvertPgToMongo(pg[mi][k])
           existing(k) == mongo[mi][k]
           written == {k \in ks : ResResolve(ResStrategy(strategy), doc(k), existing(k), "postgres")}
           failed == written \cap reject # {}
           counted == [stats EXCEPT
                         !.rows_inserted = @ + Cardinality({k \in written : ~Present(existing(k))}),
                         !.rows_updated = @ + Cardinality({k \in written : Present(existing(k))}),
                         !.rows_skipped = @ + Cardinality(ks \ written)]
       IN  /\ pages' = Append(pages, batch)
           /\ IF batch = <<>>
              THEN /\ pc' = "idle"
                   /\ UNCHANGED <<mongo, stats, handled, writes, offset>>
              ELSE /\ mongo' = [mongo EXCEPT ![mi] =
                         [k \in Keys |-> IF k \in written \ reject THEN MongoSetUpsert(@[k], doc(k), k) ELSE @[k]]]
                   /\ handled' = CountAll(handled, ks)
                   /\ writes' = WroteAll(writes, "mongo", written \ reject)
                   /\ IF failed
                      THEN /\ stats' = [counted EXCEPT !.errors = @ + 1]
                           /\ pc' = "idle"
                           /\ UNCHANGED offset
                      ELSE /\ stats' = [counted EXCEPT !.rows_processed = @ + Len(batch)]
                           /\ offset' = offset + batch_size
                           /\ UNCHANGED pc
    /\ UNCHANGED <<callVars, attempt, concVars, found, resVars, schedVars, cfgVars, extVars, pg, mi, bidirVars, clock, cycle, total_rows, histVars>>

\* DataSync.sync_postgres_to_mongo returns its stats
ResReturn ==
    /\ impl = "resolver"
    /\ pc = "page"
    /\ offset >= total_rows
    /\ pc' = "idle"
    /\ UNCHANGED <<callVars, attempt, concVars, found, resVars, schedVars, cfgVars, extVars, pg, mongo, mi, stats, bidirVars, clock, cycle, writes, pageVars, histVars>>

\* ------------------------------------------------- DataSync (datasync.py)
\* the instant DataSync.resolve_conflict reads: doc.get('updated_at', datetime.min);
\* Null when the value does not compare with a datetime
MonoTime(doc) ==
    IF "updated_at" \notin DOMAIN doc THEN 0
    ELSE IF IsDatetime(doc["updated_at"]) THEN doc["updated_at"] - TimeBase
    ELSE Null

\* DataSync.resolve_conflict: "source", "target", or "raise" (TypeError of the comparison)
MonoResolveConflict(strat, source_doc, target_doc) ==
    IF strat = "source_wins" THEN "source"
    ELSE IF strat = "target_wins" THEN "target"
    ELSE IF strat = "latest" THEN
        IF MonoTime(source_doc) = Null \/ MonoTime(target_doc) = Null THEN "raise"
        ELSE IF MonoTime(source_doc) >= MonoTime(target_doc) THEN "source"
        ELSE "target"
    ELSE "source"

\* what sync_table does with one row: "skipped", "updated", "inserted" or "raise"
MonoOutcome(strat, row, existing) ==
    IF Get(row, "id") = Null THEN "skipped"
    ELSE IF Present(existing) THEN
        LET r == MonoResolveConflict(strat, row, existing)
        IN  IF r = "raise" THEN "raise"
            ELSE IF (IF r = "source" THEN row ELSE existing) # existing THEN "updated"
            ELSE "skipped"
    ELSE "inserted"

\* the document sync_table stores: the row stamped with _synced_at; replace_one
\* keeps the native _id, insert_one creates one
MonoStored(row, existing, k, now) ==
    Put(Put(row, "_synced_at", now), "_id",
        IF Present(existing) THEN existing["_id"] ELSE ObjectId(k))

MonoStats0 == [inserted |-> 0, updated |-> 0, skipped |-> 0, errors |-> 0]

\* DataSync.sync_table, entry: the row count is read
MonoSyncTable ==
    /\ impl = "mono"
    /\ pc = "idle"
    /\ cycle < MaxCycles
    /\ mi \notin down
    /\ cycle' = cycle + 1
    /\ clock' = clock + 1
    /\ stats' = MonoStats0
    /\ total_rows' = RowCount(pg[mi])
    /\ offset' = 0
    /\ pages' = <<>>
    /\ handled' = NotHandled
    /\ writes' = NoWrites
    /\ visited' = {mi}
    /\ pc' = "page"
    /\ attempt' = 1
    /\ sleeps' = 0
    /\ retry_out' = "none"
    /\ UNCHANGED <<callVars, concVars, found, resVars, schedVars, cfgVars, tableVars, notifVars, retry_attempts, pg, mongo, mi, bidirVars, results>>

\* the pages a pass over the largest table reads, and one more; the record
\* of pages fetched keeps no more
MaxPages == MaxKey + 2

\* DataSync.sync_table, one iteration of `while offset < total_count'; a
\* PyMongoError of a row's write is caught and counted at the row; an
\* exception that is no PyMongoError leaves sync_table
MonoPage ==
    /\ impl = "mono"
    /\ pc = "page"
    /\ offset < total_rows
    /\ LET batch == FetchBatch(pg[mi], batch_size, offset)
           out(k) == MonoOutcome(strategy, pg[mi][k], mongo[mi][k])
           bad == {i \in 1..Len(batch) : out(batch[i]) = "raise"}
           done == IF bad = {} THEN Len(batch) ELSE Min(bad) - 1
           ks == {batch[i] : i \in 1..done}
           refused == {k \in ks \cap reject : out(k) \in {"updated", "inserted"}}
           written == {k \in ks \ refused : out(k) \in {"updated", "inserted"}}
           now == Datetime(clock)
       IN  /\ pages' = IF Len(pages) < MaxPages THEN Append(pages, batch) ELSE pages
           /\ mongo' = [mongo EXCEPT ![mi] =
                 [k \in Keys |-> IF k \in written THEN MonoStored(pg[mi][k], @[k], k, now) ELSE @[k]]]
           /\ stats' = [stats EXCEPT
                 !.inserted = @ + Cardinality({k \in written : out(k) = "inserted"}),
                 !.updated = @ + Cardinality({k \in written : out(k) = "updated"}),
                 !.skipped = @ + Cardinality({k \in ks : out(k) = "skipped"}),
                 !.errors = @ + Cardinality(refused)]
           /\ handled' = CountAll(handled, ks)
           /\ writes' = WroteAll(writes, "mongo", written)
           /\ IF bad = {}
              THEN offset' = offset + batch_size /\ UNCHANGED pc
              ELSE pc' = "raised" /\ UNCHANGED offset
    /\ UNCHANGED <<callVars, attempt, concVars, found, resVars, schedVars, cfgVars, extVars, pg, mi, bidirVars, clock, cycle, total_rows, histVars>>

\* DataSync.sync_table returns its stats
MonoReturn ==
    /\ impl = "mono"
    /\ pc = "page"
    /\ offset >= total_rows
    /\ pc' = "idle"
    /\ retry_out' = "stats"
    /\ UNCHANGED <<callVars, attempt, concVars, found, resVars, schedVars, cfgVars, tableVars, notifVars, retry_attempts, sleeps,
                   pg, mongo, mi, stats, bidirVars, clock, cycle, writes, pageVars, histVars>>

\* ------------------------------------ SyncEngine (sequential sync_engine.py)
\* the value of doc['_sync_source'] the engine writes: 'postgres'
SourcePostgres == 7

\* SyncEngine._convert_for_mongo
SeqConvertForMongoNoMarker(record, pk_col, now) ==
    IF pk_col # "_id" /\ pk_col \in DOMAIN record
    THEN Put(Without(record, {pk_col}), "_id", record[pk_col])
    ELSE record

SeqConvertForMongo(record, pk_col, now) ==
    LET doc == IF pk_col # "_id" /\ pk_col \in DOMAIN record
               THEN Put(Without(record, {pk_col}), "_id", record[pk_col])
               ELSE record
    IN  Put(Put(doc, "_sync_source", SourcePostgres), "_sync_at", now)

\* a faulty variant of the inverse conversion that leaves the key under _id
SeqConvertForPostgresKeepId(doc, pk_col) == Without(doc, {"_sync_source", "_sync_at"})

\* SyncEngine._convert_for_postgres
SeqConvertForPostgres(doc, pk_col) ==
    LET record == IF "_id" \in DOMAIN doc
                  THEN Put(Without(doc, {"_id"}), pk_col, doc["_id"])
                  ELSE doc
    IN  Without(record, {"_sync_source", "_sync_at"})

\* SyncEngine._upsert_to_mongo on the document `old' stored under doc's _id
\* (NoRec when there is none): a truthy _id is replaced or inserted with
\* replace_one(upsert=True); a falsy one goes to insert_one, which fails with a
\* duplicate key when the _id is taken.  [doc: what is stored then, ok: the result]
SeqUpsertToMongo(old, doc) ==
    IF PyTruthy(Get(doc, "_id")) THEN [doc |-> doc, ok |-> TRUE]
    ELSE IF Present(old) THEN [doc |-> old, ok |-> FALSE]
    ELSE [doc |-> doc, ok |-> TRUE]

SeqStats0 == [records_synced |-> 0, records_skipped |-> 0, conflicts_resolved |-> 0, errors |-> 0]

\* SyncEngine.sync_all, entry
SeqSyncAll ==
    /\ impl = "seq"
    /\ pc = "idle"
    /\ cycle < MaxCycles
    /\ cycle' = cycle + 1
    /\ clock' = clock + 1
    /\ mi' = 1
    /\ results' = NoResults
    /\ visited' = {}
    /\ pc' = "mapping"
    /\ found' = [pg |-> pg, mongo |-> mongo]
    /\ UNCHANGED <<callVars, attempt, concVars, resVars, schedVars, cfgVars, extVars, pg, mongo, stats, bidirVars, writes, pageVars>>

\* SyncEngine.sync_table, entry, for the relational-to-document direction
SeqSyncTable ==
    /\ impl = "seq"
    /\ pc = "mapping"
    /\ mi <= nmap
    /\ direction \in {"postgres_to_mongo", "bidirectional"}
    /\ stats' = SeqStats0
    /\ offset' = 0
    /\ pages' = <<>>
    /\ handled' = NotHandled
    /\ writes' = NoWrites
    /\ visited' = visited \cup {mi}
    /\ pc' = "page"
    /\ UNCHANGED <<callVars, attempt, concVars, found, resVars, schedVars, cfgVars, extVars, pg, mongo, mi, bidirVars, clock, cycle, total_rows, results>>

\* SyncEngine.sync_table when _get_primary_key cannot get a connection: getconn
\* is called before its try, and sync_table calls _get_primary_key before its
\* own, so the exception leaves sync_table and sync_all
SeqGetPrimaryKeyRaises ==
    /\ impl = "seq"
    /\ pc = "mapping"
    /\ mi <= nmap
    /\ mi \in down
    /\ visited' = visited \cup {mi}
    /\ pc' = "raised"
    /\ UNCHANGED <<callVars, attempt, concVars, found, resVars, schedVars, cfgVars, extVars, pg, mongo, mi, stats, bidirVars, clock, cycle, writes, pageVars, results>>

\* SyncEngine._sync_postgres_to_mongo, one iteration of `while True'; sync_table
\* catches a failing fetch (the connection is lost after the key lookup, or the
\* lookup swallowed the failure) and returns the result with the error recorded
SeqPage ==
    /\ impl = "seq"
    /\ pc = "page"
    /\ IF mi \in down
       THEN /\ stats' = Bump(stats, "errors")
            /\ results' = [results EXCEPT ![mi] = Bump(stats, "errors")]
            /\ mi' = mi + 1
            /\ pc' = "mapping"
            /\ UNCHANGED <<mongo, offset, pages, handled, writes>>
       ELSE LET records == FetchBatch(pg[mi], batch_size, offset)
                ks == Range(records)
                doc(k) == SeqConvertForMongo(pg[mi][k], PK, Datetime(clock))
                up(k) == IF k \in reject THEN [doc |-> mongo[mi][k], ok |-> FALSE]
                         ELSE SeqUpsertToMongo(mongo[mi][k], doc(k))
                good == {k \in ks : up(k).ok}
            IN  /\ pages' = Append(pages, records)
                /\ IF records = <<>> /\ direction = "bidirectional"
                   THEN /\ pc' = "mongo_page"
                        /\ offset' = 0
                        /\ UNCHANGED <<mongo, mi, results, handled, writes, stats>>
                   ELSE IF records = <<>>
                   THEN /\ results' = [results EXCEPT ![mi] = stats]
                        /\ mi' = mi + 1
                        /\ pc' = "mapping"
                        /\ UNCHANGED <<mongo, offset, handled, writes, stats>>
                   ELSE /\ mongo' = [mongo EXCEPT ![mi] =
                              [k \in Keys |-> IF k \in ks THEN up(k).doc ELSE @[k]]]
                        /\ stats' = [stats EXCEPT
                              !.records_synced = @ + Cardinality(good),
                              !.errors = @ + Cardinality(ks \ good)]
                        /\ handled' = CountAll(handled, ks)
                        /\ writes' = WroteAll(writes, "mongo", good)
                        /\ offset' = offset + Len(records)
                        /\ UNCHANGED <<mi, pc, results>>
    /\ UNCHANGED <<callVars, attempt, concVars, found, resVars, schedVars, cfgVars, extVars, pg, bidirVars, clock, cycle, total_rows, visited>>

\* SyncEngine.sync_all returns the results
\* the columns of the tables the sequential engine synchronises
SeqColumns == {"id", "name", "updated_at"}

\* _upsert_to_postgres: INSERT INTO t (record's keys) ... ON CONFLICT (pk) DO
\* UPDATE SET col = EXCLUDED.col for the other keys; the statement fails (and
\* False is returned) for a key that is no column, for a key value that is no
\* integer, and when the record has no key other than pk (empty SET list)
SeqUpsertToPostgres(old, record, pk_col) ==
    IF \/ ~(DOMAIN record \subseteq SeqColumns)
       \/ pk_col \notin DOMAIN record
       \/ DOMAIN record = {pk_col}
       \/ record[pk_col] \notin Keys
    THEN [row |-> old, ok |-> FALSE]
    ELSE [row |-> [c \in SeqColumns |->
                     IF c \in DOMAIN record THEN record[c]
                     ELSE IF Present(old) THEN old[c] ELSE Null],
          ok |-> TRUE]

\* sync_table with direction mongo_to_postgres
SeqSyncTableMongo ==
    /\ impl = "seq"
    /\ pc = "mapping"
    /\ mi <= nmap
    /\ direction = "mongo_to_postgres"
    /\ stats' = SeqStats0
    /\ offset' = 0
    /\ pages' = <<>>
    /\ handled' = NotHandled
    /\ writes' = NoWrites
    /\ visited' = visited \cup {mi}
    /\ pc' = "mongo_page"
    /\ UNCHANGED <<callVars, attempt, concVars, found, resVars, schedVars, cfgVars, extVars, pg, mongo, mi, bidirVars, clock, cycle, total_rows, results>>

\* _sync_mongo_to_postgres: one batch of documents
SeqMongoPage ==
    /\ impl = "seq"
    /\ pc = "mongo_page"
    /\ LET docs == FetchBatch(mongo[mi], batch_size, offset)
           ks == Range(docs)
           own == {k \in ks : Get(mongo[mi][k], "_sync_source") = SourcePostgres}
           up(k) == SeqUpsertToPostgres(pg[mi][k], SeqConvertForPostgres(mongo[mi][k], PK), PK)
           good == {k \in ks \ own : up(k).ok}
       IN  IF docs = <<>>
           THEN /\ results' = [results EXCEPT ![mi] = stats]
                /\ mi' = mi + 1
                /\ pc' = "mapping"
                /\ UNCHANGED <<pg, offset, handled, writes, stats>>
           ELSE /\ pg' = [pg EXCEPT ![mi] = [k \in Keys |-> IF k \in good THEN up(k).row ELSE @[k]]]
                /\ stats' = [stats EXCEPT
                      !.records_synced = @ + Cardinality(good),
                      !.records_skipped = @ + Cardinality(own),
                      !.errors = @ + Cardinality((ks \ own) \ good)]
                /\ handled' = CountAll(handled, ks)
                /\ writes' = WroteAll(writes, "pg", good)
                /\ offset' = offset + Len(docs)
                /\ UNCHANGED <<mi, pc, results>>
    /\ UNCHANGED <<callVars, attempt, concVars, found, resVars, schedVars, cfgVars, extVars, mongo, bidirVars, clock, cycle, total_rows, pages, visited>>

SeqSyncAllReturn ==
    /\ impl = "seq"
    /\ pc = "mapping"
    /\ mi > nmap
    /\ pc' = "idle"
    /\ UNCHANGED <<callVars, attempt, concVars, found, resVars, schedVars, cfgVars, extVars, pg, mongo, mi, stats, bidirVars, clock, cycle, writes, pageVars, histVars>>

\* ---------------------------------------------- DataSync (datasync/sync.py)
\* field names that start with an underscore
UnderscoreFields ==
    {"_id", "_pg_id", "_synced_at", "_sync_source", "_sync_at", "_sync_updated_at", "_updated", "_rev"}

\* DataSync._convert_pg_to_mongo (datasync/sync.py)
PkgConvertPgToMongo(record, now) ==
    LET doc == IF "id" \in DOMAIN record THEN Put(record, "_pg_id", record["id"]) ELSE record
    IN  Put(doc, "_synced_at", now)

\* DataSync._convert_mongo_to_pg (datasync/sync.py): underscore fields are
\* skipped, except that _pg_id gives id; a document field `id', which follows
\* _pg_id in the documents the engine writes, overwrites it; None for an empty result
PkgConvertMongoToPg(document) ==
    LET kept == Without(document, UnderscoreFields)
    IN  IF "_pg_id" \in DOMAIN document /\ "id" \notin DOMAIN document
        THEN Put(kept, "id", document["_pg_id"])
        ELSE kept

PkgStats0 == [synced |-> 0, errors |-> 0]

\* DataSync.sync, entry
PkgSync ==
    /\ impl = "pkg"
    /\ pc = "idle"
    /\ cycle < MaxCycles
    /\ cycle' = cycle + 1
    /\ clock' = clock + 1
    /\ mi' = 1
    /\ results' = NoResults
    /\ visited' = {}
    /\ pc' = "mapping"
    /\ UNCHANGED <<callVars, attempt, concVars, found, resVars, schedVars, cfgVars, extVars, pg, mongo, stats, bidirVars, writes, pageVars>>

\* DataSync.sync, the head of `for mapping in mappings': table_stats is created
PkgMapping ==
    /\ impl = "pkg"
    /\ pc = "mapping"
    /\ mi <= nmap
    /\ direction = "postgres_to_mongo"
    /\ stats' = PkgStats0
    /\ offset' = 0
    /\ pages' = <<>>
    /\ handled' = NotHandled
    /\ writes' = NoWrites
    /\ visited' = visited \cup {mi}
    /\ pc' = "page"
    /\ UNCHANGED <<callVars, attempt, concVars, found, resVars, schedVars, cfgVars, extVars, pg, mongo, mi, bidirVars, clock, cycle, total_rows, results>>

\* DataSync.sync, one batch of _fetch_postgres_batch handed to _sync_to_mongo;
\* an exception is counted in table_stats and raised again, leaving sync()
PkgPage ==
    /\ impl = "pkg"
    /\ pc = "page"
    /\ IF mi \in down
       THEN /\ stats' = Bump(stats, "errors")
            /\ pc' = "raised"
            /\ UNCHANGED <<mongo, offset, pages, handled, writes, mi, results>>
       ELSE LET batch == FetchBatch(pg[mi], batch_size, offset)
                ks == Range(batch)
                doc(k) == PkgConvertPgToMongo(pg[mi][k], Datetime(clock))
            IN  /\ pages' = Append(pages, batch)
                /\ IF batch = <<>>
                   THEN /\ results' = [results EXCEPT ![mi] = stats]
                        /\ mi' = mi + 1
                        /\ pc' = "mapping"
                        /\ UNCHANGED <<mongo, offset, handled, writes, stats>>
                   ELSE /\ mongo' = [mongo EXCEPT ![mi] =
                              [k \in Keys |-> IF k \in ks \ reject THEN MongoSetUpsert(@[k], doc(k), k) ELSE @[k]]]
                        /\ handled' = CountAll(handled, ks)
                        /\ writes' = WroteAll(writes, "mongo", ks \ reject)
                        /\ IF ks \cap reject # {}
                           THEN /\ stats' = Bump(stats, "errors")
                                /\ pc' = "raised"
                                /\ UNCHANGED <<offset, mi, results>>
                           ELSE /\ stats' = [stats EXCEPT !.synced = @ + Cardinality(
                                      {k \in ks : MongoSetUpsert(mongo[mi][k], doc(k), k) # mongo[mi][k]})]
                                /\ offset' = offset + batch_size
                                /\ UNCHANGED <<mi, pc, results>>
    /\ UNCHANGED <<callVars, attempt, concVars, found, resVars, schedVars, cfgVars, extVars, pg, bidirVars, clock, cycle, total_rows, visited>>

\* DataSync.sync returns its stats
PkgReturn ==
    /\ impl = "pkg"
    /\ pc = "mapping"
    /\ mi > nmap
    /\ pc' = "idle"
    /\ UNCHANGED <<callVars, attempt, concVars, found, resVars, schedVars, cfgVars, extVars, pg, mongo, mi, stats, bidirVars, clock, cycle, writes, pageVars, histVars>>

\* ------------------------------------------------- one-way synchronisation
\* the row of key k in a one-way source table
SourceRow(k, name, updated) == [id |-> k, name |-> name, updated_at |-> updated]

\* the direction name each implementation gives relational-to-document sync
PgToMongoName(i) == IF i = "engine" THEN "pg_to_mongo" ELSE "postgres_to_mongo"

\* config default: sync.retry_attempts
RetryAttempts == 3

\* every table has its primary-key constraint and no table list is being walked
NoTableList ==
    /\ no_pk = {}
    /\ tables_cfg = "names"
    /\ tables = <<>>
    /\ keyed = [m \in Mappings |-> "unsynced"]

\* sync_with_retry is not running
NoRetryCall == retry_attempts = RetryAttempts /\ sleeps = 0 /\ retry_out = "none"

\* there is no notification worker
NoWorker ==
    /\ job = [channel |-> "email", attempts |-> 0, max_attempts |-> 0]
    /\ worker_channel = "all"
    /\ queue_entry = Null
    /\ in_jobs = FALSE
    /\ delivery = [status |-> "pending", attempts |-> 0]
    /\ wpc = "none"
    /\ sends = 0
    /\ outcomes = {}

ExtIdle == NoTableList /\ NoRetryCall /\ NoWorker

BetweenCycles ==
    /\ pc = "idle"
    /\ mi = 1
    /\ pg_rows = EmptyStore
    /\ mongo_docs = EmptyStore
    /\ all_keys = {}
    /\ clock = 3
    /\ writes = NoWrites
    /\ PagesIdle
    /\ visited = {}
    /\ results = NoResults
    /\ conv = <<>>
    /\ ups = <<>>
    /\ attempt = 1
    /\ found = NoRec

\* no cycle has run yet
EngineIdle == BetweenCycles /\ cycle = 0

\* one instance runs, and what it does is in the variables above
IdleState ==
    /\ EngineIdle
    /\ coll = <<>>
    /\ inst = <<>>

\* no resolver is called on its own
NoResolverCall == side_a = NoRec /\ side_b = NoRec /\ verdict = "none" /\ verdict2 = "none"

\* the engine is driven directly, by no entry point
NoScheduler ==
    /\ mode = "none"
    /\ interval = 0
    /\ spc = "none"
    /\ running = TRUE
    /\ ticks = 0
    /\ started = 0
    /\ stop_at = "none"
    /\ since_stop = [ticks |-> 0, cycles |-> 0, before |-> {}]
    /\ exit_status = Null

StatsOf(i) ==
    CASE i = "engine" -> EngStats0
      [] i = "resolver" -> ResStats0
      [] i = "mono" -> MonoStats0
      [] i = "seq" -> SeqStats0
      [] OTHER -> PkgStats0

\* paging: one table of any size, every page size, an empty collection
InitPages ==
    /\ ExtIdle
    /\ impl \in {"engine", "resolver", "mono", "seq", "pkg"}
    /\ direction = PgToMongoName(impl)
    /\ strategy = "latest_wins"
    /\ batch_size \in 1..MaxBatch
    /\ nmap = 1
    /\ down = {}
    /\ reject = {}
    /\ \E S \in SUBSET Keys :
         pg = [m \in Mappings |->
                 IF m = 1 THEN [k \in Keys |-> IF k \in S THEN SourceRow(k, 1, Datetime(1)) ELSE NoRec]
                 ELSE EmptyStore]
    /\ mongo = [m \in Mappings |-> EmptyStore]
    /\ stats = StatsOf(impl)
    /\ arg = NoRec
    /\ IdleState
    /\ NoResolverCall
    /\ NoScheduler

NextPages ==
    \/ EngSyncOnce
    \/ EngPgToMongo
    \/ EngPgToMongoPage
    \/ EngSyncOnceReturn
    \/ ResSyncPostgresToMongo
    \/ ResPage
    \/ ResReturn
    \/ MonoSyncTable
    \/ MonoPage
    \/ MonoReturn
    \/ SeqSyncAll
    \/ SeqSyncTable
    \/ SeqPage
    \/ SeqSyncAllReturn
    \/ PkgSync
    \/ PkgMapping
    \/ PkgPage
    \/ PkgReturn

SpecPages == InitPages /\ [][NextPages]_vars

\* conflict handling in one-way sync: rows with and without a timestamp against
\* absent, identical, older, newer and timestamp-free documents
OneWayStrategies ==
    {"source_wins", "target_wins", "latest_wins", "latest", "manual", "mongo_priority"}

OneWaySources(k) == {NoRec, SourceRow(k, 1, Datetime(2)), SourceRow(k, 1, Null)}

OneWayTargets(k, row) ==
    IF ~Present(row) THEN {NoRec, [_id |-> ObjectId(k), id |-> k, name |-> 2]}
    ELSE {NoRec,
          Put(Put(row, "_id", ObjectId(k)), "_synced_at", Datetime(0)),
          [_id |-> ObjectId(k), id |-> k, name |-> 2, updated_at |-> Datetime(1)],
          [_id |-> ObjectId(k), id |-> k, name |-> 2, updated_at |-> Datetime(3)],
          [_id |-> ObjectId(k), id |-> k, name |-> 2]}

InitOneWay ==
    /\ ExtIdle
    /\ impl \in {"resolver", "mono"}
    /\ direction = PgToMongoName(impl)
    /\ strategy \in OneWayStrategies
    /\ batch_size \in 1..MaxBatch
    /\ nmap = 1
    /\ down = {}
    /\ reject = {}
    /\ \E src \in [RichKeys -> UNION {OneWaySources(k) : k \in RichKeys}] :
         /\ \A k \in RichKeys : src[k] \in OneWaySources(k)
         /\ pg = [m \in Mappings |-> IF m = 1 THEN StoreOf(src) ELSE EmptyStore]
         /\ \E tgt \in [RichKeys -> UNION {OneWayTargets(k, src[k]) : k \in RichKeys}] :
              /\ \A k \in RichKeys : tgt[k] \in OneWayTargets(k, src[k])
              /\ mongo = [m \in Mappings |-> IF m = 1 THEN StoreOf(tgt) ELSE EmptyStore]
    /\ stats = StatsOf(impl)
    /\ arg = NoRec
    /\ IdleState
    /\ NoResolverCall
    /\ NoScheduler

NextOneWay ==
    \/ ResSyncPostgresToMongo
    \/ ResPage
    \/ ResReturn
    \/ MonoSyncTable
    \/ MonoPage
    \/ MonoReturn

SpecOneWay == InitOneWay /\ [][NextOneWay]_vars

\* a cycle over several mappings, some of whose stores are unreachable
InitCycle ==
    /\ ExtIdle
    /\ impl \in {"engine", "seq", "pkg"}
    /\ direction = PgToMongoName(impl)
    /\ strategy = "latest_wins"
    /\ batch_size = 1
    /\ nmap \in 1..MaxMappings
    /\ down \in SUBSET (1..nmap)
    /\ reject = {}
    /\ \E full \in SUBSET (1..nmap) :
         pg = [m \in Mappings |->
                 IF m \in full THEN [k \in Keys |-> IF k = 1 THEN SourceRow(1, 1, Datetime(1)) ELSE NoRec]
                 ELSE EmptyStore]
    /\ mongo = [m \in Mappings |-> EmptyStore]
    /\ stats = StatsOf(impl)
    /\ arg = NoRec
    /\ IdleState
    /\ NoResolverCall
    /\ NoScheduler

NextCycle ==
    \/ EngSyncOnce
    \/ EngPgToMongo
    \/ EngPgToMongoPage
    \/ EngSyncOnceReturn
    \/ SeqSyncAll
    \/ SeqSyncTable
    \/ SeqGetPrimaryKeyRaises
    \/ SeqPage
    \/ SeqSyncAllReturn
    \/ PkgSync
    \/ PkgMapping
    \/ PkgPage
    \/ PkgReturn

SpecCycle == InitCycle /\ [][NextCycle]_vars

\* one-way sync into a collection that refuses some of the documents
InitReject ==
    /\ ExtIdle
    /\ impl \in {"engine", "resolver", "mono", "seq", "pkg"}
    /\ direction = PgToMongoName(impl)
    /\ strategy = "latest_wins"
    /\ batch_size \in 1..MaxBatch
    /\ nmap = 1
    /\ down = {}
    /\ reject \in SUBSET Keys
    /\ \E S \in SUBSET Keys :
         pg = [m \in Mappings |->
                 IF m = 1 THEN [k \in Keys |-> IF k \in S THEN SourceRow(k, 1, Datetime(1)) ELSE NoRec]
                 ELSE EmptyStore]
    /\ mongo = [m \in Mappings |-> EmptyStore]
    /\ stats = StatsOf(impl)
    /\ arg = NoRec
    /\ IdleState
    /\ NoResolverCall
    /\ NoScheduler

SpecReject == InitReject /\ [][NextPages]_vars

\* ------------------------------------------ converters and upserts, called
\* how often an upsert of the same record is applied
MaxUpserts == 2

\* rows with a key field (0 is the falsy key), a value (null, falsy, plain) and,
\* for some, a column whose name starts with an underscore
CallRows ==
    {[id |-> k, name |-> n] : k \in Keys, n \in {Null, 0, 1}}
        \cup {[id |-> k, name |-> n, _rev |-> 2] : k \in Keys, n \in {Null, 0, 1}}

\* what the collection holds under the row's key before the calls
CallStored(i, row) ==
    LET doc == IF i = "seq" THEN [_id |-> row.id, name |-> 2]
               ELSE IF i = "pkg" THEN [_id |-> ObjectId(row.id), _pg_id |-> row.id, id |-> row.id, name |-> 2]
               ELSE [_id |-> ObjectId(row.id), id |-> row.id, name |-> 2]
    IN  {NoRec, doc, Put(doc, "legacy", 1)}

\* the relational-to-document conversion of each implementation
ToDocumentShape(row) ==
    CASE impl = "seq" -> SeqConvertForMongo(row, PK, Datetime(clock))
      [] impl = "pkg" -> PkgConvertPgToMongo(row, Datetime(clock))
      [] OTHER -> ResConvertPgToMongo(row)

\* the document-to-relational conversion of the two implementations that have one
ToRelationalShape(doc) ==
    IF impl = "seq" THEN SeqConvertForPostgres(doc, PK) ELSE PkgConvertMongoToPg(doc)

\* _convert_for_mongo / _convert_pg_to_mongo applied to the row
CallConvertForMongo ==
    /\ impl \in {"seq", "pkg"}
    /\ conv = <<>>
    /\ conv' = <<ToDocumentShape(arg)>>
    /\ UNCHANGED <<arg, ups, attempt, concVars, found, resVars, schedVars, cfgVars, extVars, pg, mongo, pc, mi, stats, bidirVars, clock, cycle, writes, pageVars, histVars>>

\* _convert_for_postgres / _convert_mongo_to_pg applied to the document
CallConvertForPostgres ==
    /\ impl \in {"seq", "pkg"}
    /\ Len(conv) = 1
    /\ conv' = Append(conv, ToRelationalShape(conv[1]))
    /\ UNCHANGED <<arg, ups, attempt, concVars, found, resVars, schedVars, cfgVars, extVars, pg, mongo, pc, mi, stats, bidirVars, clock, cycle, writes, pageVars, histVars>>

\* SyncEngine._upsert_to_mongo(collection, doc),
\* MongoConnection.upsert_batch(collection, [doc], pk) or the UpdateOne of
\* DataSync._sync_to_mongo (datasync/sync.py, the same $set upsert matched on
\* _pg_id), applied once more to the converted row; the result and the stored
\* state are noted
CallUpsert ==
    /\ impl \in {"seq", "resolver", "pkg"}
    /\ Len(ups) < MaxUpserts
    /\ LET k == arg.id
           doc == ToDocumentShape(arg)
           old == mongo[1][k]
           up == IF impl = "seq" THEN SeqUpsertToMongo(old, doc)
                 ELSE [doc |-> MongoSetUpsert(old, doc, k), ok |-> TRUE]
           store == [mongo[1] EXCEPT ![k] = up.doc]
       IN  /\ mongo' = [mongo EXCEPT ![1] = store]
           /\ ups' = Append(ups, [ok |-> up.ok, store |-> store])
    /\ UNCHANGED <<arg, conv, attempt, concVars, found, resVars, schedVars, cfgVars, extVars, pg, pc, mi, stats, bidirVars, clock, cycle, writes, pageVars, histVars>>

InitCalls ==
    /\ ExtIdle
    /\ impl \in {"seq", "pkg", "resolver"}
    /\ direction = PgToMongoName(impl)
    /\ strategy = "latest_wins"
    /\ batch_size = 1
    /\ nmap = 1
    /\ down = {}
    /\ reject = {}
    /\ arg \in CallRows
    /\ pg = [m \in Mappings |-> EmptyStore]
    /\ \E d \in CallStored(impl, arg) :
         mongo = [m \in Mappings |-> IF m = 1 THEN [EmptyStore EXCEPT ![arg.id] = d] ELSE EmptyStore]
    /\ stats = StatsOf(impl)
    /\ IdleState
    /\ NoResolverCall
    /\ NoScheduler

NextCalls ==
    \/ CallConvertForMongo
    \/ CallConvertForPostgres
    \/ CallUpsert

SpecCalls == InitCalls /\ [][NextCalls]_vars

\* ------------------------------------------ bidirectional cycles of the engine
\* relational rows a key may hold when the cycle starts
BidirPgRows(k) ==
    {NoRec, PgRow(k, 1, Null, Null), PgRow(k, 1, Datetime(2), Null), PgRow(k, 1, Datetime(1), Null)}

\* documents a key may hold when the cycle starts
BidirMongoDocs(k) ==
    LET base(name) == [_id |-> ObjectId(k), id |-> k, name |-> name]
    IN  { NoRec,
          base(2),
          Put(base(1), "updated_at", Datetime(1)),
          Put(base(2), "updated_at", Datetime(2)),
          Put(Put(base(2), "updated_at", Datetime(1)), SYNC_METADATA_FIELD, Datetime(3)) }

Strategies == {"source_wins", "target_wins", "latest_wins", "manual"}

InitBidir ==
    /\ ExtIdle
    /\ impl = "engine"
    /\ direction = "bidirectional"
    /\ strategy \in Strategies
    /\ batch_size = 1
    /\ nmap = 1
    /\ down = {}
    /\ reject = {}
    /\ \E p \in [RichKeys -> UNION {BidirPgRows(k) : k \in RichKeys}] :
         /\ \A k \in RichKeys : p[k] \in BidirPgRows(k)
         /\ pg = [m \in Mappings |-> IF m = 1 THEN StoreOf(p) ELSE EmptyStore]
    /\ \E d \in [RichKeys -> UNION {BidirMongoDocs(k) : k \in RichKeys}] :
         /\ \A k \in RichKeys : d[k] \in BidirMongoDocs(k)
         /\ mongo = [m \in Mappings |-> IF m = 1 THEN StoreOf(d) ELSE EmptyStore]
    /\ stats = EngStats0
    /\ arg = NoRec
    /\ IdleState
    /\ NoResolverCall
    /\ NoScheduler

NextBidir ==
    \/ EngSyncOnce
    \/ EngBidirScan
    \/ \E key \in Keys : EngBidirKey(key)
    \/ EngBidirReturn
    \/ EngSyncOnceReturn

SpecBidir == InitBidir /\ [][NextBidir]_vars

\* ------------------------------------------ entry points: loop and single shot
\* sync_engine.py run/stop (engine), sequential main.py run_once/run_daemon (seq),
\* main.py run_once/run_continuous (resolver), datasync.py run_continuous/main (mono)

MaxInterval == 2

engineVars == <<callVars, cfgVars, pg, mongo, pc, mi, stats, bidirVars, clock, cycle,
                writes, pageVars, histVars>>

\* the loops that poll a flag between 1-second sleeps; the others sleep the
\* whole interval in one call and are stopped by KeyboardInterrupt
HasStopFlag(i) == i \in {"engine", "seq"}

Stopped == stop_at # "none"

\* what can raise before the first mapping of a cycle is reached
CallFailures(i, m) ==
    CASE i = "seq" -> {"connect", "discovery"}
      [] i = "resolver" -> {"connect", "discovery"}
      [] i = "mono" -> IF m = "once" THEN {"connect", "discovery"} ELSE {"discovery"}
      [] OTHER -> {}

LoopForever(i, r) == TRUE

\* while self._running / while running / while True
LoopContinues(i, r) == HasStopFlag(i) => r

TickIgnoresFlag(t, r) == t = 0

\* for _ in range(interval): if not running: break: the sleep is over when
\* the range is exhausted or the flag is cleared
TickBreaks(t, r) == t = 0 \/ ~r

\* run(), run_daemon(), run_continuous(): the loop condition
RunLoop ==
    /\ mode = "continuous"
    /\ spc = "loop"
    /\ IF ~LoopContinues(impl, running)
       THEN /\ spc' = "exited"
            /\ UNCHANGED <<started, since_stop, pc>>
       ELSE /\ started < MaxCycles
            /\ spc' = "call"
            /\ started' = started + 1
            /\ since_stop' = IF Stopped THEN [since_stop EXCEPT !.cycles = @ + 1] ELSE since_stop
            /\ pc' = "idle"
    /\ UNCHANGED <<mode, interval, running, ticks, stop_at, exit_status, attempt, concVars, found, resVars,
                   callVars, cfgVars, extVars,
                   pg, mongo, mi, stats, bidirVars, clock, cycle, writes, pageVars, histVars>>

\* the cycle raises before any mapping: connecting or table discovery fails
RunCallRaises ==
    /\ spc = "call"
    /\ pc = "idle"
    /\ cycle < started
    /\ cycle < MaxCycles
    /\ CallFailures(impl, mode) # {}
    /\ cycle' = cycle + 1
    /\ pc' = "raised_call"
    /\ visited' = {}
    /\ UNCHANGED <<attempt, concVars, found, resVars, schedVars, callVars, cfgVars, extVars, pg, mongo, mi, stats,
                   bidirVars, clock, writes, pageVars, results>>

\* the steps of the cycle the entry point has called
RunCycleStep ==
    /\ spc = "call"
    /\ pc = "idle" => cycle < started
    /\ \/ EngSyncOnce
       \/ EngPgToMongo
       \/ EngPgToMongoPage
       \/ EngSyncOnceReturn
       \/ ResSyncPostgresToMongo
       \/ ResPage
       \/ ResReturn
       \/ MonoSyncTable
       \/ MonoPage
       \/ MonoReturn
       \/ SeqSyncAll
       \/ SeqSyncTable
       \/ SeqGetPrimaryKeyRaises
       \/ SeqPage
       \/ SeqSyncAllReturn

\* errors recorded in the statistics of the cycle
CycleErrors ==
    IF impl = "seq"
    THEN \E m \in Mappings : Present(results[m]) /\ results[m].errors > 0
    ELSE stats.errors > 0

\* an exception of the cycle reaches the loop (or main) uncaught by the cycle
CycleRaised == pc \in {"raised", "raised_call"}

\* the process status of a single shot: sequential main.py run_once and
\* main (exit 0 if success else 1), main.py run_once (1 if has_errors else 0,
\* an exception leaves main), datasync.py main (returns nothing)
ExitStatusOf(i) ==
    CASE i = "seq" -> IF CycleRaised \/ CycleErrors THEN 1 ELSE 0
      [] i = "resolver" -> IF CycleRaised \/ CycleErrors THEN 1 ELSE 0
      [] OTHER -> IF pc = "raised_call" THEN 1 ELSE 0

\* the exception handlers around the cycle in the loop: run() and
\* run_continuous() of main.py catch Exception, run_once of sequential
\* main.py catches Exception, datasync.py catches inside sync_all only
LoopSurvives(i) ==
    CASE i = "mono" -> pc # "raised_call"
      [] OTHER -> TRUE

\* the cycle is over: the single shot exits, the loop goes to sleep
RunCycleEnds ==
    /\ spc = "call"
    /\ cycle = started
    /\ pc \in {"idle", "raised", "raised_call"}
    /\ IF mode = "once"
       THEN /\ spc' = "done"
            /\ exit_status' = ExitStatusOf(impl)
            /\ UNCHANGED ticks
       ELSE IF LoopSurvives(impl)
       THEN /\ spc' = IF HasStopFlag(impl) THEN "tick" ELSE "sleeping"
            /\ ticks' = IF HasStopFlag(impl) THEN interval ELSE 0
            /\ UNCHANGED exit_status
       ELSE /\ spc' = "crashed"
            /\ exit_status' = 1
            /\ UNCHANGED ticks
    /\ UNCHANGED <<mode, interval, running, started, stop_at, since_stop, attempt, concVars, found, resVars, engineVars, extVars>>

\* for _ in range(interval): if not running: break
RunTick ==
    /\ spc = "tick"
    /\ spc' = IF TickBreaks(ticks, running) THEN "loop" ELSE "sleeping"
    /\ UNCHANGED <<mode, interval, running, ticks, started, stop_at, since_stop,
                   exit_status, attempt, concVars, found, resVars, engineVars, extVars>>

\* time.sleep(1) of the polling loops, time.sleep(interval) of the others
RunSleep ==
    /\ spc = "sleeping"
    /\ IF HasStopFlag(impl)
       THEN /\ ticks' = ticks - 1
            /\ spc' = "tick"
            /\ since_stop' = IF Stopped THEN [since_stop EXCEPT !.ticks = @ + 1] ELSE since_stop
       ELSE /\ spc' = "loop"
            /\ UNCHANGED <<ticks, since_stop>>
    /\ UNCHANGED <<mode, interval, running, started, stop_at, exit_status, attempt, concVars, found, resVars, engineVars, extVars>>

\* where the loop is when a signal arrives
Phase == IF spc = "call" THEN "cycle" ELSE "sleep"

\* stop(), the signal handler of run_daemon: the flag is cleared, nothing else
RunStop ==
    /\ mode = "continuous"
    /\ HasStopFlag(impl)
    /\ ~Stopped
    /\ spc \in {"loop", "call", "tick", "sleeping"}
    /\ running' = FALSE
    /\ stop_at' = Phase
    /\ since_stop' = [since_stop EXCEPT !.before = visited]
    /\ UNCHANGED <<mode, interval, spc, ticks, started, exit_status, attempt, concVars, found, resVars, engineVars, extVars>>

\* KeyboardInterrupt in a loop without a flag: main.py catches it around
\* run_once only, datasync.py around the whole loop
RunInterrupt ==
    /\ mode = "continuous"
    /\ ~HasStopFlag(impl)
    /\ ~Stopped
    /\ spc \in {"loop", "call", "sleeping"}
    /\ stop_at' = Phase
    /\ running' = FALSE
    /\ IF impl = "resolver" /\ spc # "call"
       THEN spc' = "crashed" /\ exit_status' = 1
       ELSE spc' = "exited" /\ UNCHANGED exit_status
    /\ UNCHANGED <<mode, interval, ticks, started, since_stop, attempt, concVars, found, resVars, engineVars, extVars>>

\* main(): what makes a run a single shot is a command-line flag (--once of
\* the sequential main.py, the absence of --continuous in main.py and
\* datasync.py); interval_seconds is not consulted, and SyncEngine.run is
\* the loop itself
EntryMode(i, flag, ivl) ==
    CASE i = "seq" -> IF flag THEN "once" ELSE "continuous"
      [] i \in {"resolver", "mono"} -> IF flag THEN "continuous" ELSE "once"
      [] OTHER -> "continuous"

DaemonRows == [k \in Keys |-> IF k \in {0, 1} THEN SourceRow(k, 1, Datetime(1)) ELSE NoRec]

InitDaemon ==
    /\ ExtIdle
    /\ impl \in {"engine", "seq", "resolver", "mono"}
    /\ interval \in {0, MaxInterval}
    /\ \E flag \in BOOLEAN : mode = EntryMode(impl, flag, interval)
    /\ spc = IF mode = "once" THEN "call" ELSE "loop"
    /\ started = IF mode = "once" THEN 1 ELSE 0
    /\ running = TRUE
    /\ ticks = 0
    /\ stop_at = "none"
    /\ since_stop = [ticks |-> 0, cycles |-> 0, before |-> {}]
    /\ exit_status = Null
    /\ direction = PgToMongoName(impl)
    /\ strategy = "latest_wins"
    /\ batch_size = 1
    /\ nmap \in IF impl \in {"engine", "seq"} THEN {1, MaxMappings} ELSE {1}
    /\ down \in IF impl = "mono" THEN {{}} ELSE {{}, {nmap}}
    /\ reject \in {{}, {1}}
    /\ pg = [m \in Mappings |-> IF m <= nmap THEN DaemonRows ELSE EmptyStore]
    /\ mongo = [m \in Mappings |-> EmptyStore]
    /\ stats = StatsOf(impl)
    /\ arg = NoRec
    /\ IdleState
    /\ NoResolverCall

NextDaemon ==
    \/ RunLoop
    \/ RunCallRaises
    \/ RunCycleStep
    \/ RunCycleEnds
    \/ RunTick
    \/ RunSleep
    \/ RunStop
    \/ RunInterrupt

SpecDaemon == InitDaemon /\ [][NextDaemon]_vars

\* the thread that runs the loop keeps running: a sleep returns, a cycle step
\* is followed by the next one
LoopStep ==
    \/ RunLoop
    \/ RunCallRaises
    \/ RunCycleStep
    \/ RunCycleEnds
    \/ RunTick
    \/ RunSleep

FairDaemon == InitDaemon /\ [][NextDaemon]_vars /\ WF_vars(LoopStep)

\* --------------------------------------------------- resolvers, called alone

\* _resolve_conflict of the sequential sync_engine.py (233-251)
SeqResolveConflict(strat, pg_record, mongo_doc) ==
    LET pg_time == PyOr(Get(pg_record, "updated_at"), Get(pg_record, "created_at"))
        mongo_time == PyOr(Get(mongo_doc, "_sync_at"), Get(mongo_doc, "updated_at"))
    IN  IF strat = "postgres_priority" THEN "postgres"
        ELSE IF strat = "mongo_priority" THEN "mongo"
        ELSE IF PyTruthy(pg_time) /\ PyTruthy(mongo_time) THEN
            IF ~(IsDatetime(pg_time) /\ IsDatetime(mongo_time)) THEN "raise"
            ELSE IF pg_time > mongo_time THEN "postgres"
            ELSE "mongo"
        ELSE IF PyTruthy(pg_time) THEN "postgres"
        ELSE IF PyTruthy(mongo_time) THEN "mongo"
        ELSE "postgres"

\* the name each implementation gives the latest-timestamp strategy
LatestName(i) == IF i = "mono" THEN "latest" ELSE "latest_wins"
\* a strategy name no implementation recognises
UnknownStrategy == "newest_first"

\* the field names a record's modification time conventionally goes under
TimestampNames == {"updated_at", "updatedAt", "modified_at", "modifiedAt", SYNC_METADATA_FIELD}
MaxTime == 2
\* a record of key 1 with no timestamp, or one timestamp under one of the names
ResolverRecords ==
    {[id |-> 1, name |-> 1]} \cup
    {Put([id |-> 1, name |-> 1], f, Datetime(t)) : f \in TimestampNames, t \in 1..MaxTime}

EngResolveCall ==
    /\ impl = "engine"
    /\ verdict2 = "none"
    /\ LET r == EngResolveConflict(strategy, side_a, side_b)
       IN  IF verdict = "none"
           THEN verdict' = r /\ UNCHANGED verdict2
           ELSE verdict2' = r /\ UNCHANGED verdict
    /\ UNCHANGED <<concVars, found, side_a, side_b, attempt, schedVars, engineVars, extVars>>

SeqResolveCall ==
    /\ impl = "seq"
    /\ verdict2 = "none"
    /\ LET r == SeqResolveConflict(strategy, side_a, side_b)
       IN  IF verdict = "none"
           THEN verdict' = r /\ UNCHANGED verdict2
           ELSE verdict2' = r /\ UNCHANGED verdict
    /\ UNCHANGED <<concVars, found, side_a, side_b, attempt, schedVars, engineVars, extVars>>

\* ConflictResolver(strategy).resolve(source_doc, target_doc, 'postgres'):
\* the source document, or None to leave the target as it is
ResResolveCall ==
    /\ impl = "resolver"
    /\ verdict2 = "none"
    /\ LET r == IF ResResolve(ResStrategy(strategy), side_a, side_b, "postgres")
                THEN "source" ELSE "none_returned"
       IN  IF verdict = "none"
           THEN verdict' = r /\ UNCHANGED verdict2
           ELSE verdict2' = r /\ UNCHANGED verdict
    /\ UNCHANGED <<concVars, found, side_a, side_b, attempt, schedVars, engineVars, extVars>>

MonoResolveCall ==
    /\ impl = "mono"
    /\ verdict2 = "none"
    /\ LET r == MonoResolveConflict(strategy, side_a, side_b)
       IN  IF verdict = "none"
           THEN verdict' = r /\ UNCHANGED verdict2
           ELSE verdict2' = r /\ UNCHANGED verdict
    /\ UNCHANGED <<concVars, found, side_a, side_b, attempt, schedVars, engineVars, extVars>>

InitResolve ==
    /\ ExtIdle
    /\ impl \in {"engine", "seq", "resolver", "mono"}
    /\ strategy \in {LatestName(impl), UnknownStrategy}
    /\ side_a \in ResolverRecords
    /\ side_b \in ResolverRecords
    /\ verdict = "none"
    /\ verdict2 = "none"
    /\ direction = PgToMongoName(impl)
    /\ batch_size = 1
    /\ nmap = 1
    /\ down = {}
    /\ reject = {}
    /\ pg = [m \in Mappings |-> EmptyStore]
    /\ mongo = [m \in Mappings |-> EmptyStore]
    /\ stats = StatsOf(impl)
    /\ arg = NoRec
    /\ IdleState
    /\ NoScheduler

NextResolve ==
    \/ EngResolveCall
    \/ SeqResolveCall
    \/ ResResolveCall
    \/ MonoResolveCall

SpecResolve == InitResolve /\ [][NextResolve]_vars

\* ------------------------------------------------------ fixed-side strategies

\* the names under which each implementation knows the fixed-side strategies
SourceSideNames == {"source_wins", "postgres_priority"}
TargetSideNames == {"target_wins", "mongo_priority"}
FixedStrategies(i) ==
    CASE i = "resolver" -> {"source_wins", "postgres_priority", "mongo_priority"}
      [] i = "seq" -> {"postgres_priority", "mongo_priority"}
      [] OTHER -> {"source_wins", "target_wins"}

\* key 1 is held by both stores, with name 1 in the table and name 2 in the
\* collection; key 2 may be held by the table alone
FixedRow(i, k, t) ==
    IF i = "engine" THEN PgRow(k, 1, Datetime(t), Null) ELSE SourceRow(k, 1, Datetime(t))
FixedDoc(i, k, t) ==
    IF i = "seq" THEN [_id |-> k, name |-> 2, updated_at |-> Datetime(t)]
    ELSE [_id |-> ObjectId(k), id |-> k, name |-> 2, updated_at |-> Datetime(t)]

InitFixedSide ==
    /\ ExtIdle
    /\ impl \in {"engine", "seq", "resolver", "mono"}
    /\ direction \in {PgToMongoName(impl)} \cup (IF impl = "engine" THEN {"bidirectional"} ELSE {})
    /\ strategy \in FixedStrategies(impl)
    /\ batch_size = 1
    /\ nmap = 1
    /\ down = {}
    /\ reject = {}
    /\ \E t \in 1..MaxTime, more \in BOOLEAN :
         pg = [m \in Mappings |->
                 IF m = 1
                 THEN [k \in Keys |-> IF k = 1 \/ (k = 2 /\ more) THEN FixedRow(impl, k, t) ELSE NoRec]
                 ELSE EmptyStore]
    /\ \E t \in 1..MaxTime :
         mongo = [m \in Mappings |->
                    IF m = 1
                    THEN [k \in Keys |-> IF k = 1 THEN FixedDoc(impl, 1, t) ELSE NoRec]
                    ELSE EmptyStore]
    /\ stats = StatsOf(impl)
    /\ arg = NoRec
    /\ IdleState
    /\ NoResolverCall
    /\ NoScheduler

NextFixedSide ==
    \/ EngSyncOnce
    \/ EngPgToMongo
    \/ EngPgToMongoPage
    \/ EngBidirScan
    \/ \E key \in Keys : EngBidirKey(key)
    \/ EngBidirReturn
    \/ EngSyncOnceReturn
    \/ ResSyncPostgresToMongo
    \/ ResPage
    \/ ResReturn
    \/ MonoSyncTable
    \/ MonoPage
    \/ MonoReturn
    \/ SeqSyncAll
    \/ SeqSyncTable
    \/ SeqPage
    \/ SeqSyncAllReturn

SpecFixedSide == InitFixedSide /\ [][NextFixedSide]_vars

\* ------------------------------------------------- datasync.py sync_with_retry

\* sync_with_retry: an exception of sync_table before the last attempt: the
\* table is synchronised again, from its first page, in the same sync_all
MonoRetry ==
    /\ impl = "mono"
    /\ pc = "raised"
    /\ attempt < retry_attempts
    /\ attempt' = attempt + 1
    /\ sleeps' = sleeps + 1
    /\ stats' = MonoStats0
    /\ total_rows' = RowCount(pg[mi])
    /\ offset' = 0
    /\ pages' = <<>>
    /\ pc' = "page"
    /\ UNCHANGED <<callVars, concVars, found, resVars, schedVars, cfgVars, tableVars, notifVars, retry_attempts, retry_out,
                   pg, mongo, mi, bidirVars, clock, cycle, writes, handled, histVars>>

\* sync_with_retry re-raises after the last attempt and sync_all records
\* {'error': ...} for the table
MonoSyncAllFails ==
    /\ impl = "mono"
    /\ pc = "raised"
    /\ attempt >= retry_attempts
    /\ results' = [results EXCEPT ![mi] = [error |-> 1]]
    /\ pc' = "idle"
    /\ retry_out' = "raised"
    /\ UNCHANGED <<callVars, attempt, concVars, found, resVars, schedVars, cfgVars, tableVars, notifVars, retry_attempts, sleeps,
                   pg, mongo, mi, stats, bidirVars, clock, cycle, writes, pageVars, visited>>

InitRetry ==
    /\ ExtIdle
    /\ impl \in {"mono", "engine"}
    /\ direction = PgToMongoName(impl)
    /\ strategy = LatestName(impl)
    /\ batch_size \in 1..MaxBatch
    /\ nmap = 1
    /\ down = {}
    /\ reject \in SUBSET {1, 2}
    /\ \E s1 \in OneWaySources(1), s2 \in OneWaySources(2) :
         /\ pg = [m \in Mappings |-> IF m = 1 THEN StoreOf(<<s1, s2>>) ELSE EmptyStore]
         /\ \E t1 \in OneWayTargets(1, s1), t2 \in OneWayTargets(2, s2) :
              mongo = [m \in Mappings |-> IF m = 1 THEN StoreOf(<<t1, t2>>) ELSE EmptyStore]
    /\ stats = StatsOf(impl)
    /\ arg = NoRec
    /\ IdleState
    /\ NoResolverCall
    /\ NoScheduler

NextRetry ==
    \/ EngSyncOnce
    \/ EngPgToMongo
    \/ EngPgToMongoPage
    \/ EngSyncOnceReturn
    \/ MonoSyncTable
    \/ MonoPage
    \/ MonoRetry
    \/ MonoSyncAllFails
    \/ MonoReturn

SpecRetry == InitRetry /\ [][NextRetry]_vars

\* ------------------------------- the sequential engine, in every direction

\* documents of the collection when the cycle starts: none, one an earlier
\* export left, one written by another application, one with a field that is
\* no column of the table
SeqDocs(k) ==
    {NoRec,
     [_id |-> k, name |-> 1, updated_at |-> Datetime(1),
      _sync_source |-> SourcePostgres, _sync_at |-> Datetime(0)],
     [_id |-> k, name |-> 2],
     [_id |-> k, name |-> 2, extra |-> 1]}

InitSeqDirections ==
    /\ ExtIdle
    /\ impl = "seq"
    /\ direction \in {"postgres_to_mongo", "mongo_to_postgres", "bidirectional"}
    /\ strategy = "latest_wins"
    /\ batch_size \in 1..MaxBatch
    /\ nmap = 1
    /\ down = {}
    /\ reject \in {{}, {1}}
    /\ \E S \in SUBSET {1, 2} :
         pg = [m \in Mappings |->
                 IF m = 1 THEN [k \in Keys |-> IF k \in S THEN SourceRow(k, 1, Datetime(1)) ELSE NoRec]
                 ELSE EmptyStore]
    /\ \E d1 \in SeqDocs(1), d2 \in SeqDocs(2) :
         mongo = [m \in Mappings |-> IF m = 1 THEN StoreOf(<<d1, d2>>) ELSE EmptyStore]
    /\ stats = SeqStats0
    /\ arg = NoRec
    /\ IdleState
    /\ NoResolverCall
    /\ NoScheduler

NextSeqDirections ==
    \/ SeqSyncAll
    \/ SeqSyncTable
    \/ SeqPage
    \/ SeqSyncTableMongo
    \/ SeqMongoPage
    \/ SeqSyncAllReturn

SpecSeqDirections == InitSeqDirections /\ [][NextSeqDirections]_vars

\* -------------------------- two instances on one relational-to-document mapping
Instances == {1, 2}

\* the field each implementation looks a document up by
ConcKeyField(i) == IF i = "seq" THEN "_id" ELSE "id"

\* the positions of the documents of c that match {f: k}
Matches(c, f, k) == {n \in 1..Len(c) : Get(c[n], f) = k}

\* collection.find_one({f: k}): the first match in natural order, or None
FindOne(c, f, k) == IF Matches(c, f, k) = {} THEN NoRec ELSE c[Min(Matches(c, f, k))]

\* the rows an instance iterates over, in the order of the SELECT
ConcRows == FetchBatch(pg[1], MaxKey + 1, 0)

\* instance i moves on to its next row, or is done after the last one
ConcAdvance(i, nextpc) ==
    [inst EXCEPT ![i] = [@ EXCEPT !.at = @ + 1,
                                  !.pc = IF inst[i].at = Len(ConcRows) THEN "done" ELSE nextpc]]

\* DataSync.sync_table (datasync.py), `existing = collection.find_one({'id': row_id})'
ConcMonoFind(i) ==
    /\ impl = "mono"
    /\ inst[i].pc = "find"
    /\ inst' = [inst EXCEPT ![i] = [@ EXCEPT !.pc = "write",
                     !.existing = FindOne(coll, "id", ConcRows[inst[i].at])]]
    /\ UNCHANGED <<coll, found, callVars, attempt, resVars, schedVars, cfgVars, extVars, pg, mongo, pc, mi, stats,
                   bidirVars, clock, cycle, writes, pageVars, histVars>>

\* DataSync.sync_table (datasync.py), the branch taken on `existing': replace_one
\* on the first document matching {'id': row_id} now, or insert_one; a TypeError
\* of the comparison leaves sync_table
ConcMonoWrite(i) ==
    /\ impl = "mono"
    /\ inst[i].pc = "write"
    /\ LET k == ConcRows[inst[i].at]
           row == pg[1][k]
           out == MonoOutcome(strategy, row, inst[i].existing)
           hit == Matches(coll, "id", k)
           now == Datetime(clock)
       IN  /\ coll' = IF out = "inserted"
                      THEN Append(coll, MonoStored(row, NoRec, Len(coll) + 1, now))
                      ELSE IF out = "updated" /\ hit # {}
                      THEN [coll EXCEPT ![Min(hit)] = MonoStored(row, @, k, now)]
                      ELSE coll
           /\ inst' = IF out = "raise"
                      THEN [inst EXCEPT ![i] = [@ EXCEPT !.pc = "done"]]
                      ELSE ConcAdvance(i, "find")
    /\ UNCHANGED <<found, callVars, attempt, resVars, schedVars, cfgVars, extVars, pg, mongo, pc, mi, stats,
                   bidirVars, clock, cycle, writes, pageVars, histVars>>

\* DataSync.sync_postgres_to_mongo (sync.py), one row of the page: get_document,
\* resolve, and the winner is appended to documents_to_write
ConcResFind(i) ==
    /\ impl = "resolver"
    /\ inst[i].pc = "find"
    /\ LET k == ConcRows[inst[i].at]
           doc == ResConvertPgToMongo(pg[1][k])
           existing == FindOne(coll, "id", k)
           write == ResResolve(ResStrategy(strategy), doc, existing, "postgres")
       IN  inst' = [inst EXCEPT ![i] = [@ EXCEPT
                       !.at = IF @ = Len(ConcRows) THEN @ ELSE @ + 1,
                       !.pc = IF inst[i].at = Len(ConcRows) THEN "write" ELSE "find",
                       !.todo = IF write THEN Append(@, k) ELSE @]]
    /\ UNCHANGED <<coll, found, callVars, attempt, resVars, schedVars, cfgVars, extVars, pg, mongo, pc, mi, stats,
                   bidirVars, clock, cycle, writes, pageVars, histVars>>

\* s without its n-th element
DropAt(s, n) == SubSeq(s, 1, n - 1) \o SubSeq(s, n + 1, Len(s))

\* MongoConnection.upsert_batch: the unordered bulk write applies one
\* UpdateOne({pk: doc[pk]}, {'$set': doc}, upsert=True) at a time, each as one
\* step of the server
ConcResWrite(i) ==
    /\ impl = "resolver"
    /\ inst[i].pc = "write"
    /\ IF inst[i].todo = <<>>
       THEN /\ inst' = [inst EXCEPT ![i] = [@ EXCEPT !.pc = "done"]]
            /\ UNCHANGED coll
       ELSE \E n \in 1..Len(inst[i].todo) :
               LET k == inst[i].todo[n]
                   doc == ResConvertPgToMongo(pg[1][k])
                   hit == Matches(coll, "id", k)
               IN  /\ coll' = IF hit = {}
                              THEN Append(coll, MongoSetUpsert(NoRec, doc, Len(coll) + 1))
                              ELSE [coll EXCEPT ![Min(hit)] = MongoSetUpsert(@, doc, k)]
                   /\ inst' = [inst EXCEPT ![i] = [@ EXCEPT !.todo = DropAt(@, n)]]
    /\ UNCHANGED <<found, callVars, attempt, resVars, schedVars, cfgVars, extVars, pg, mongo, pc, mi, stats,
                   bidirVars, clock, cycle, writes, pageVars, histVars>>

\* SyncEngine._sync_postgres_to_mongo (sequential), one record: converted and
\* handed to _upsert_to_mongo, which reads nothing first: replace_one on _id with
\* upsert=True, or insert_one for a falsy _id, whose DuplicateKeyError is caught
ConcSeqWrite(i) ==
    /\ impl = "seq"
    /\ inst[i].pc = "write"
    /\ LET k == ConcRows[inst[i].at]
           doc == SeqConvertForMongo(pg[1][k], PK, Datetime(clock))
           hit == Matches(coll, "_id", k)
       IN  coll' = IF hit = {} THEN Append(coll, doc)
                   ELSE IF k # 0 THEN [coll EXCEPT ![Min(hit)] = doc]
                   ELSE coll
    /\ inst' = ConcAdvance(i, "write")
    /\ UNCHANGED <<found, callVars, attempt, resVars, schedVars, cfgVars, extVars, pg, mongo, pc, mi, stats,
                   bidirVars, clock, cycle, writes, pageVars, histVars>>

\* what an earlier run left in the collection for key k: nothing, or the
\* document of an older version of the row
ConcEarlier(i, k) ==
    LET old == SourceRow(k, 0, Datetime(0))
    IN  IF i = "seq" THEN SeqConvertForMongo(old, PK, Datetime(0))
        ELSE IF i = "mono" THEN MonoStored(old, NoRec, k, Datetime(0))
        ELSE MongoSetUpsert(NoRec, ResConvertPgToMongo(old), k)

InitConcurrent ==
    /\ ExtIdle
    /\ impl \in {"mono", "resolver", "seq"}
    /\ direction = "postgres_to_mongo"
    /\ strategy \in {"source_wins", "latest_wins"}
    /\ batch_size = MaxKey + 1
    /\ nmap = 1
    /\ down = {}
    /\ reject = {}
    /\ \E ks \in SUBSET (0..MaxRichKeys) :
          /\ ks # {}
          /\ pg = [m \in Mappings |->
                     [k \in Keys |-> IF m = 1 /\ k \in ks THEN SourceRow(k, 1, Datetime(1)) ELSE NoRec]]
    /\ mongo = [m \in Mappings |-> EmptyStore]
    /\ stats = StatsOf(impl)
    /\ arg = NoRec
    /\ EngineIdle
    /\ NoResolverCall
    /\ NoScheduler
    /\ coll \in {<<>>} \cup {<<ConcEarlier(impl, k)>> : k \in {k \in 0..MaxRichKeys : Present(pg[1][k])}}
    /\ \E alone \in BOOLEAN :
          inst = [i \in Instances |->
                    [pc |-> IF alone /\ i = 2 THEN "done" ELSE IF impl = "seq" THEN "write" ELSE "find",
                     at |-> 1, existing |-> NoRec, todo |-> <<>>]]

NextConcurrent ==
    \E i \in Instances :
        \/ ConcMonoFind(i)
        \/ ConcMonoWrite(i)
        \/ ConcResFind(i)
        \/ ConcResWrite(i)
        \/ ConcSeqWrite(i)

SpecConcurrent == InitConcurrent /\ [][NextConcurrent]_vars

\* ------------------------------------------- bidirectional cycles, repeated
\* cycles run one after the other with no outside write in between
MaxRounds == 2

\* what the table may hold for key k before the first cycle
ConvergePgRows(i, k) ==
    IF i = "engine" THEN {NoRec, PgRow(k, 1, Datetime(1), Null)}
    ELSE {NoRec, SourceRow(k, 1, Datetime(1))}

\* what the collection may hold for key k before the first cycle: nothing, a
\* document of an earlier export (with its origin marker), a document of
\* another application, and one with a field that is no column
ConvergeMongoDocs(i, k) ==
    IF i = "engine"
    THEN LET base == [_id |-> ObjectId(k), id |-> k, name |-> 2]
         IN  { NoRec,
               MongoUpsertDoc(NoRec, EngMongoRecord(PgRow(k, 1, Datetime(1), Null), Datetime(0)), k),
               base,
               Put(base, "extra", 1) }
    ELSE SeqDocs(k)

InitConverge ==
    /\ ExtIdle
    /\ impl \in {"engine", "seq"}
    /\ direction = "bidirectional"
    /\ strategy \in IF impl = "engine" THEN {"source_wins", "target_wins", "latest_wins"}
                    ELSE {"latest_wins"}
    /\ batch_size = MaxBatch
    /\ nmap = 1
    /\ down = {}
    /\ reject = {}
    /\ \E r1 \in ConvergePgRows(impl, 1), r2 \in ConvergePgRows(impl, 2) :
         pg = [m \in Mappings |-> IF m = 1 THEN StoreOf(<<r1, r2>>) ELSE EmptyStore]
    /\ \E d1 \in ConvergeMongoDocs(impl, 1), d2 \in {NoRec} \cup {d \in ConvergeMongoDocs(impl, 2) : "extra" \in DOMAIN d} :
         mongo = [m \in Mappings |-> IF m = 1 THEN StoreOf(<<d1, d2>>) ELSE EmptyStore]
    /\ stats = StatsOf(impl)
    /\ arg = NoRec
    /\ BetweenCycles
    /\ cycle = MaxCycles - MaxRounds
    /\ coll = <<>>
    /\ inst = <<>>
    /\ NoResolverCall
    /\ NoScheduler

NextConverge ==
    \/ EngSyncOnce
    \/ EngBidirScan
    \/ \E key \in Keys : EngBidirKey(key)
    \/ EngBidirReturn
    \/ EngSyncOnceReturn
    \/ SeqSyncAll
    \/ SeqSyncTable
    \/ SeqPage
    \/ SeqMongoPage
    \/ SeqSyncAllReturn

SpecConverge == InitConverge /\ [][NextConverge]_vars

\* ===================================================================== claims
\* the cycle's single mapping has been processed without a caught error
BidirDone == impl = "engine" /\ direction = "bidirectional" /\ pc = "mapping" /\ mi = 2

\* keys the scan found on both sides with payloads that differ under the
\* engine's comparison
BidirConflictKeys ==
    {k \in Keys : Present(pg_rows[k]) /\ Present(mongo_docs[k])
                  /\ EngCompare(pg_rows[k]) # EngCompare(mongo_docs[k])}

\* the record of the side that prevails for key k: the only holder, or the
\* resolver's winner
BidirChosen(k) ==
    IF ~Present(mongo_docs[k]) THEN pg_rows[k]
    ELSE IF ~Present(pg_rows[k]) THEN mongo_docs[k]
    ELSE IF EngResolveConflict(strategy, pg_rows[k], mongo_docs[k]) = "mongo" THEN mongo_docs[k]
    ELSE pg_rows[k]

\* a record as the engine compares it (native _id and sync metadata left out,
\* datetimes in ISO form), a NULL column counting as a missing field
Payload(rec) ==
    LET n == EngCompare(NormalizeDoc(rec))
    IN  Restrict(n, {f \in DOMAIN n : n[f] # Null})

\* C1: after one bidirectional cycle without failure under a strategy that does
\* not skip, every key either store held at cycle start is in both stores, the
\* two stored payloads are equal after normalisation, and equal to the payload
\* of the side the resolver chose.
C1_UnionCoverage ==
    (BidirDone /\ strategy # "manual" /\ stats.errors = 0) =>
        \A k \in Keys :
            (Present(pg_rows[k]) \/ Present(mongo_docs[k])) =>
                /\ Present(pg[1][k])
                /\ Present(mongo[1][k])
                /\ Payload(pg[1][k]) = Payload(mongo[1][k])
                /\ Payload(pg[1][k]) = Payload(BidirChosen(k))

\* the instant carried by a record's updated_at field
UpdatedAt(rec) == Get(rec, "updated_at")

\* keys of C2: on both sides, payloads differ, relational updated_at strictly later
C2Keys ==
    {k \in BidirConflictKeys :
        /\ EngTimeParses(UpdatedAt(pg_rows[k]))
        /\ EngTimeParses(UpdatedAt(mongo_docs[k]))
        /\ EngTime(UpdatedAt(pg_rows[k])) > EngTime(UpdatedAt(mongo_docs[k]))}

\* C2: under latest_wins, a key on both sides with differing payloads whose
\* relational updated_at is strictly later than the document's is won by the
\* relational record, whatever other fields the records carry: it counts one
\* conflict, the document is overwritten to match the row, the row is not written.
C2_RelationalLaterWins ==
    (BidirDone /\ strategy = "latest_wins") =>
        /\ stats.conflicts = Cardinality(BidirConflictKeys)
        /\ \A k \in C2Keys :
            /\ writes[<<"mongo", k>>] = 1
            /\ writes[<<"pg", k>>] = 0
            /\ pg[1][k] = pg_rows[k]
            /\ EngCompare(mongo[1][k]) = EngCompare(pg_rows[k])

\* ------------------------------------------------------- one-way properties
\* a cycle has run to its end
CycleDone == pc = "idle" /\ cycle >= 1

\* the number of records the paging loop has dealt with, in each implementation's counters
Processed ==
    CASE impl = "engine" -> stats.pg_to_mongo
      [] impl = "resolver" -> stats.rows_processed
      [] impl = "mono" -> stats.inserted + stats.updated + stats.skipped
      [] impl = "seq" -> stats.records_synced + stats.records_skipped + stats.errors
      [] OTHER -> stats.synced

Inserted == IF impl = "resolver" THEN stats.rows_inserted ELSE stats.inserted
Updated == IF impl = "resolver" THEN stats.rows_updated ELSE stats.updated
Skipped == IF impl = "resolver" THEN stats.rows_skipped ELSE stats.skipped

SourceKeys == {k \in Keys : Present(pg[1][k])}
CeilDiv(n, l) == (n + l - 1) \div l
NonEmptyPages == SelectSeq(pages, LAMBDA p : p # <<>>)

\* the records this step of the paging loop dealt with
StepKeys == {k \in Keys : handled'[k] # handled[k]}
\* the payload of source record k after conversion
Converted(k) == IF impl = "resolver" THEN ResConvertPgToMongo(pg[mi][k]) ELSE pg[mi][k]
\* a payload without the native id and the synchronisation markers
StripMarkers(doc) ==
    Without(doc, {"_id", "_pg_id", "_synced_at", "_sync_source", "_sync_at", "_sync_updated_at"})
Differing(k) ==
    Present(mongo[mi][k]) /\ StripMarkers(mongo[mi][k]) # StripMarkers(Converted(k))
Identical(k) ==
    Present(mongo[mi][k]) /\ StripMarkers(mongo[mi][k]) = StripMarkers(Converted(k))

\* C3: under conflict_resolution 'manual' a key held by both stores with
\* differing payloads is skipped: its stored record does not change and neither
\* the insert nor the update counter rises for it.
C3_ManualSkips ==
    [][(strategy = "manual" /\ pc = "page") =>
         LET differing == {k \in StepKeys : Differing(k)}
         IN  /\ \A k \in differing : mongo'[mi][k] = mongo[mi][k]
             /\ (Inserted' - Inserted) + (Updated' - Updated) <= Cardinality(StepKeys \ differing)]_vars

\* C6: the pages of a one-way sync never overlap, and when the cycle is over
\* they hold every source record, each record was converted and handed to the
\* target exactly once, and the processed count is the source size N.
C6_PagesPartitionSource ==
    /\ \A i \in 1..Len(pages) : Cardinality(Range(pages[i])) = Len(pages[i])
    /\ \A i, j \in 1..Len(pages) : i # j => Range(pages[i]) \cap Range(pages[j]) = {}
    /\ CycleDone =>
         /\ UNION {Range(pages[i]) : i \in 1..Len(pages)} = SourceKeys
         /\ \A k \in Keys : handled[k] = IF k \in SourceKeys THEN 1 ELSE 0
         /\ Processed = Cardinality(SourceKeys)

C6_Witness ==
    /\ CycleDone
    /\ impl = "seq"
    /\ batch_size = 2
    /\ Cardinality(SourceKeys) = 3
    /\ Len(NonEmptyPages) = 2
    /\ Processed = 3

\* the pages that held records are ceil(N/L) pages of L records, the last one
\* holding the N - L * (ceil(N/L) - 1) that remain, and processed is N
PageSizesRight ==
    LET n == Cardinality(SourceKeys)
        c == CeilDiv(n, batch_size)
    IN  /\ Len(NonEmptyPages) = c
        /\ \A i \in 1..c : Len(NonEmptyPages[i]) = IF i < c THEN batch_size ELSE n - batch_size * (c - 1)
        /\ Processed = n

\* C7 as stated: a one-way sync of N rows with batch_size L issues exactly
\* ceil(N/L) page fetches of sizes L, ..., L, N mod L and ends with processed = N.
C7_ExactlyCeilFetches ==
    CycleDone => Len(pages) = CeilDiv(Cardinality(SourceKeys), batch_size) /\ PageSizesRight

\* C7, amended: exactly ceil(N/L) fetches return records, of sizes L, ..., L
\* and the remainder, and processed = N; the loops that run until a page is
\* empty (engine, sequential engine, package) issue one more fetch, the last,
\* which returns nothing; the loops bounded by the row count issue none.
C7_CeilNonEmptyPages ==
    CycleDone =>
        /\ PageSizesRight
        /\ Len(pages) = Len(NonEmptyPages) + (IF impl \in {"resolver", "mono"} THEN 0 ELSE 1)
        /\ \A i \in 1..Len(pages) : pages[i] = <<>> => i = Len(pages)

C7_Witness ==
    /\ CycleDone
    /\ impl = "engine"
    /\ batch_size = 2
    /\ Cardinality(SourceKeys) = 3
    /\ Len(pages) = 3
    /\ Len(pages[2]) = 1

\* C8: a relational record whose key has no document when it is processed is
\* stored with the row's fields and counted as inserted, exactly once, and
\* not as updated or skipped.
C8_AbsentIsInserted ==
    [][(impl \in {"resolver", "mono"} /\ pc = "page") =>
         LET absent == {k \in StepKeys : ~Present(mongo[mi][k])}
         IN  /\ \A k \in absent :
                   /\ Present(mongo'[mi][k])
                   /\ \A f \in DOMAIN pg[mi][k] :
                        f \in DOMAIN mongo'[mi][k] /\ mongo'[mi][k][f] = pg[mi][k][f]
             /\ Inserted' - Inserted = Cardinality(absent)
             /\ (Updated' - Updated) + (Skipped' - Skipped) = Cardinality(StepKeys \ absent)]_vars

C8_Witness ==
    /\ CycleDone
    /\ impl = "resolver"
    /\ stats.rows_inserted = 1
    /\ stats.rows_updated = 1
    /\ \E k \in RichKeys : writes[<<"mongo", k>>] = 1 /\ mongo[1][k] = Put(pg[1][k], "_id", ObjectId(k))

\* C9: a source record whose key exists in the target is skipped and not written
\* when the two payloads are identical without native id and markers, and is
\* otherwise counted as updated and upserted; an absent one is counted as
\* inserted.  Stated for source_wins, under which no differing record is held back.
C9_IdenticalIsSkipped ==
    [][(strategy = "source_wins" /\ pc = "page") =>
         LET same == {k \in StepKeys : Identical(k)}
             differing == {k \in StepKeys : Differing(k)}
         IN  /\ Skipped' - Skipped = Cardinality(same)
             /\ Updated' - Updated = Cardinality(differing)
             /\ Inserted' - Inserted = Cardinality(StepKeys \ (same \cup differing))
             /\ \A k \in same : mongo'[mi][k] = mongo[mi][k]
             /\ \A k \in StepKeys \ same : writes'[<<"mongo", k>>] = writes[<<"mongo", k>>] + 1]_vars

\* C10: a mapping whose processing fails is recorded in the cycle's errors,
\* the later mappings are still processed, and the cycle returns its stats.
C10_MappingFailureIsolated ==
    /\ pc # "raised"
    /\ CycleDone =>
         /\ visited = 1..nmap
         /\ IF impl = "engine" THEN stats.errors = Cardinality(down)
            ELSE \A m \in 1..nmap : Present(results[m]) /\ (m \in down => results[m].errors >= 1)

\* ------------------------------------------ converter and upsert properties
\* C4: applying the adapter's upsert of a record twice leaves the stored state
\* that one application leaves, with a record under the record's key, and the
\* second application reports success; for every key value, the falsy ones too.
C4_UpsertIdempotent ==
    Len(ups) >= 2 =>
        /\ ups[2].ok
        /\ ups[2].store = ups[1].store
        /\ Present(ups[2].store[arg.id])

\* the field names a row may not use besides its key: the native identifier
\* and the markers the sequential engine strips, the whole underscore
\* namespace that the package's converter treats as the document store's own
ReservedFields == IF impl = "pkg" THEN UnderscoreFields ELSE {"_id", "_sync_source", "_sync_at"}
MarkerFields == {"_id", "_pg_id", "_synced_at", "_sync_source", "_sync_at"}

CycleOver == cycle >= 1 /\ pc \in {"idle", "raised"}

\* C11: when applying one record fails (the target refuses it), an error entry
\* for that record is recorded, and every other record of the same page and of
\* the later pages of the mapping is still applied in the same cycle.
C11_RecordFailureIsolated ==
    (impl \in {"resolver", "engine"} /\ CycleOver) =>
        /\ \A k \in SourceKeys \ reject : Present(mongo[1][k])
        /\ stats.errors = Cardinality(SourceKeys \cap reject)

\* ------------------------------------------------------- loop and exit status

LoopOver == spc \in {"exited", "crashed"}

\* C12: in continuous mode a failed cycle never ends the loop: whether the
\* cycle had record errors, a mapping error or an exception that escaped it
\* (table discovery, connection setup), the loop is only ever left after a
\* stop signal.
C12_FailedCycleKeepsLoop ==
    (mode = "continuous" /\ LoopOver) => Stopped

\* the mappings a cycle gets to when nothing interrupts it: all of them, or,
\* where the cycle raises (connecting, table discovery, an unreachable table
\* of the sequential engine), those before the exception
Reached ==
    CASE pc = "raised_call" -> {}
      [] pc = "raised" -> 1..mi
      [] OTHER -> 1..nmap

StoppedInCycle == HasStopFlag(impl) /\ stop_at = "cycle"

CycleRanToEnd ==
    /\ visited = Reached
    /\ \A m \in Reached \ down : \A k \in {0, 1} \ reject : Present(mongo[m][k])

\* C13: a stop flag set during a cycle does not interrupt it: once the cycle is
\* left every mapping and record it had still to process has been processed,
\* no sleep and no further cycle follows, and the loop returns.
C13_StopWaitsForCycle ==
    /\ [](StoppedInCycle /\ spc # "call" =>
            /\ CycleRanToEnd
            /\ since_stop.cycles = 0
            /\ since_stop.ticks = 0
            /\ spc # "sleeping")
    /\ (StoppedInCycle ~> spc = "exited")

C13_Witness ==
    /\ StoppedInCycle
    /\ since_stop.before = {}
    /\ nmap = 2
    /\ visited = {1, 2}
    /\ Present(mongo[2][0])
    /\ spc = "exited"

StoppedInSleep == mode = "continuous" /\ stop_at = "sleep"

C15_ExitStatusTellsErrors ==
    spc = "done" =>
        exit_status = IF CycleRaised \/ CycleErrors THEN 1 ELSE 0

\* ------------------------------------------------------- resolver properties

Resolved == verdict # "none"

\* the side a resolver's return value stands for; a ConflictResolver that
\* returns None leaves the target record in place
Winner(v) ==
    CASE v \in {"pg", "postgres", "source"} -> "a"
      [] v \in {"mongo", "target", "none_returned"} -> "b"
      [] OTHER -> v

HasTimestamp(rec) == \E f \in TimestampNames : f \in DOMAIN rec

\* C16: under latest_wins, when both records carry a timestamp (here under
\* updated_at, the name every resolver reads) and the two are equal, the
\* resolver returns side_a, the relational record, in every implementation.
C16_TieFavoursSideA ==
    (/\ Resolved
     /\ strategy = LatestName(impl)
     /\ "updated_at" \in DOMAIN side_a
     /\ "updated_at" \in DOMAIN side_b
     /\ side_a["updated_at"] = side_b["updated_at"]) =>
        Winner(verdict) = "a"

\* C17: under latest_wins, when exactly one record has a timestamp under one
\* of the conventional names that record wins, and when neither has one
\* side_a wins.
C17_OnlyTimestampWins ==
    (Resolved /\ strategy = LatestName(impl)) =>
        /\ HasTimestamp(side_a) /\ ~HasTimestamp(side_b) => Winner(verdict) = "a"
        /\ ~HasTimestamp(side_a) /\ HasTimestamp(side_b) => Winner(verdict) = "b"
        /\ ~HasTimestamp(side_a) /\ ~HasTimestamp(side_b) => Winner(verdict) = "a"

\* what the implementation's resolver returns when configured with latest_wins
LatestVerdict(i, a, b) ==
    CASE i = "engine" -> EngResolveConflict("latest_wins", a, b)
      [] i = "seq" -> SeqResolveConflict("latest_wins", a, b)
      [] i = "resolver" -> IF ResResolve("latest_wins", a, b, "postgres")
                           THEN "source" ELSE "none_returned"
      [] OTHER -> MonoResolveConflict("latest", a, b)

\* C19: a resolver configured with an unrecognised strategy name returns, for
\* every pair of records, what the resolver configured with latest_wins
\* returns; it neither skips the record nor fails.
C19_UnknownStrategyIsLatestWins ==
    (Resolved /\ strategy = UnknownStrategy) =>
        /\ verdict = LatestVerdict(impl, side_a, side_b)
        /\ verdict \notin {"skip", "raise"}

\* ------------------------------------------------- fixed-side properties

\* the payload (name) that identifies whose record a store holds for key 1
NameOf(store) == Get(store[1][1], "name")

\* C18: under a fixed-side strategy, for the key both stores hold with
\* differing payloads, after the cycle the configured side's store still holds
\* its own record (it is never overwritten with the other side's payload) and
\* the other store, where the direction writes it, holds that record too.
C18_FixedSideWins ==
    CycleOver =>
        /\ strategy \in SourceSideNames => NameOf(pg) = 1 /\ NameOf(mongo) = 1
        /\ strategy \in TargetSideNames =>
              /\ NameOf(mongo) = 2
              /\ direction = "bidirectional" => NameOf(pg) = 2

\* ------------------------------------------------------------ retry properties

\* C20: within one cycle no source record is processed or written to the
\* target more than once: a failed record, and the records of a table whose
\* processing failed part-way, are not attempted again before the next cycle.
C20_AppliedAtMostOncePerCycle ==
    \A k \in Keys : handled[k] <= 1 /\ writes[<<"mongo", k>>] <= 1

\* ------------------------------------------------------------ origin markers

OwnMarker(doc) == Present(doc) /\ Get(doc, "_sync_source") = SourcePostgres

\* C21: in the document-to-relational flow every document whose origin marker
\* is the engine's own is counted as skipped and written to no row; so the
\* records a relational-to-document pass has just exported are not written
\* back by the document-to-relational pass that follows it.
C21_OwnRecordsSkipped ==
    (impl = "seq" /\ direction \in {"mongo_to_postgres", "bidirectional"} /\ CycleOver) =>
        /\ \A k \in Keys : OwnMarker(mongo[1][k]) => writes[<<"pg", k>>] = 0
        /\ \A k \in Keys : writes[<<"mongo", k>>] > 0 => writes[<<"pg", k>>] = 0
        /\ results[1].records_skipped = Cardinality({k \in Keys : OwnMarker(mongo[1][k])})

C21_Witness ==
    /\ impl = "seq"
    /\ direction = "bidirectional"
    /\ CycleOver
    /\ writes[<<"mongo", 1>>] = 1
    /\ writes[<<"pg", 2>>] = 1
    /\ results[1].records_skipped = 1

\* every instance has finished its pass over the mapping
ConcDone == inst # <<>> /\ \A i \in Instances : inst[i].pc = "done"

\* the fields of a stored document that come from the source row
ConcPayload(doc) ==
    IF impl = "seq" THEN SeqConvertForPostgres(doc, PK)
    ELSE Without(doc, {"_id", "_synced_at"})

\* C22: when two instances have run the same relational-to-document mapping
\* concurrently against an unchanging source, the collection holds, under every
\* interleaving, exactly one document per source key, and it equals the row
C22_ConcurrentRunsLeaveOneRecordPerKey ==
    ConcDone =>
        \A k \in Keys : Present(pg[1][k]) =>
            /\ Cardinality(Matches(coll, ConcKeyField(impl), k)) = 1
            /\ ConcPayload(FindOne(coll, ConcKeyField(impl), k)) = pg[1][k]

\* the entry point has returned or the process has ended
SchedulerReturned == spc \in {"done", "exited", "crashed"}

\* C23: with interval_seconds equal to 0 the scheduler runs exactly one cycle
\* and returns: no second cycle is started, and once the cycle is over the
\* scheduler is neither sleeping nor back at the head of a loop
C23_ZeroIntervalIsSingleShot ==
    interval = 0 =>
        /\ started <= 1
        /\ (started = 1 /\ spc # "call") => SchedulerReturned

\* the part of a record the next cycle's behaviour can depend on when no
\* timestamp is consulted: everything but the stamp of the last sync
CyclePayload(rec) ==
    IF impl = "engine" THEN EngCompare(rec) ELSE Without(rec, {"_sync_at"})

SamePayloads(s, t) == \A k \in Keys : CyclePayload(s[k]) = CyclePayload(t[k])

\* the cycle left both stores as it found them: every later cycle does what
\* this one did
CycleIsFixedPoint ==
    /\ found # NoRec
    /\ SamePayloads(pg[1], found.pg[1])
    /\ SamePayloads(mongo[1], found.mongo[1])

\* no timestamp decides anything: sync_table of the sequential engine calls no
\* resolver, source_wins and target_wins of sync_engine.py read none
StampFree == impl = "seq" \/ strategy \in {"source_wins", "target_wins"}

CycleHadNoFailure ==
    IF impl = "seq" THEN Present(results[1]) /\ results[1].errors = 0
    ELSE stats.errors = 0

\* both stores hold the same normalised payload for every key
StoresAgree ==
    \A k \in Keys :
        IF impl = "engine"
        THEN /\ Present(pg[1][k]) <=> Present(mongo[1][k])
             /\ EngCompare(pg[1][k]) = EngCompare(mongo[1][k])
        ELSE /\ Present(pg[1][k]) <=> Present(mongo[1][k])
             /\ Present(mongo[1][k]) => SeqConvertForPostgres(mongo[1][k], PK) = pg[1][k]

\* the cycle wrote nothing and counted no conflict
CycleWasQuiet ==
    /\ \A w \in DOMAIN writes : writes[w] = 0
    /\ impl = "engine" => stats.conflicts = 0

\* C24: with no outside write and no failing adapter call, bidirectional
\* cycles with a non-skip strategy reach a state where both stores hold the
\* same normalised payloads and where a cycle writes nothing and counts no
\* conflict.  A cycle that leaves the payloads as it found them is repeated
\* unchanged by every later cycle, so it is that state: the stores agree and
\* the cycle was quiet
C24_BidirectionalConverges ==
    (direction = "bidirectional" /\ impl \in {"engine", "seq"} /\ strategy # "manual"
        /\ CycleOver /\ CycleHadNoFailure /\ StampFree /\ CycleIsFixedPoint) =>
            StoresAgree /\ CycleWasQuiet

\* the stored document holds the fields of record R with R's values, and beside
\* them nothing but the collection's native _id
StoredExactly(stored, R) ==
    /\ DOMAIN stored \ {"_id"} = DOMAIN R \ {"_id"}
    /\ \A f \in DOMAIN R : stored[f] = R[f]

\* C25: an upsert into a collection that already holds a document for the key
\* leaves exactly the fields of the upserted record (and the native _id): no
\* field of the previous version that the record lacks survives
C25_UpsertReplacesWholeRecord ==
    [][(ups' # ups /\ Present(mongo[1][arg.id])) =>
            StoredExactly(mongo'[1][arg.id], ToDocumentShape(arg))]_vars

KeyStep(k) == impl = "engine" /\ pc = "keys" /\ k \in all_keys /\ all_keys' = all_keys \ {k}

\* where the scans found key k
OnlyInTable(k) == Present(pg_rows[k]) /\ ~Present(mongo_docs[k])
OnlyInCollection(k) == Present(mongo_docs[k]) /\ ~Present(pg_rows[k])
OnBothSides(k) == Present(pg_rows[k]) /\ Present(mongo_docs[k])

\* a record's payload with the native _id and the sync-metadata field left
\* out and the values in their normal form
NormalPayload(rec) == Without(NormalizeDoc(rec), {"_id", SYNC_METADATA_FIELD})

\* C27: in a bidirectional cycle a key held by one side only gets exactly one
\* write, to the other store; the store that held it is not written, the
\* matching direction counter goes up by one and no other counter changes
C27_OneSidedKeyIsPushed ==
    [][\A k \in Keys : KeyStep(k) =>
          /\ OnlyInTable(k) =>
                /\ writes' = Wrote(writes, "mongo", k)
                /\ Present(mongo'[mi][k]) /\ mongo'[mi][k][PK] = k
                /\ pg' = pg
                /\ stats' = Bump(stats, "pg_to_mongo")
          /\ OnlyInCollection(k) =>
                /\ writes' = Wrote(writes, "pg", k)
                /\ Present(pg'[mi][k]) /\ pg'[mi][k][PK] = k
                /\ mongo' = mongo
                /\ stats' = Bump(stats, "mongo_to_pg")]_vars

\* a cycle met key 1 in the table only and key 2 in the collection only
C27_Witness ==
    /\ impl = "engine" /\ direction = "bidirectional" /\ CycleOver
    /\ Present(found.pg[1][1]) /\ ~Present(found.mongo[1][1])
    /\ Present(found.mongo[1][2]) /\ ~Present(found.pg[1][2])
    /\ writes[<<"mongo", 1>>] = 1 /\ writes[<<"pg", 1>>] = 0
    /\ writes[<<"pg", 2>>] = 1 /\ writes[<<"mongo", 2>>] = 0
    /\ stats = [pg_to_mongo |-> 1, mongo_to_pg |-> 1, conflicts |-> 0, errors |-> 0]

\* C28: in a bidirectional cycle a key held by both sides with equal
\* normalised payloads (native _id and sync metadata ignored) is left alone:
\* neither store is written and no counter changes
C28_EqualPayloadsAreLeftAlone ==
    [][\A k \in Keys :
          (KeyStep(k) /\ OnBothSides(k) /\ NormalPayload(pg_rows[k]) = NormalPayload(mongo_docs[k])) =>
              /\ pg' = pg /\ mongo' = mongo
              /\ stats' = stats
              /\ writes' = writes]_vars

\* a cycle met key 1 on both sides with equal payloads, the document with a
\* native _id and the row with a sync-metadata column, and did nothing
C28_Witness ==
    /\ impl = "engine" /\ direction = "bidirectional" /\ CycleOver
    /\ Present(found.pg[1][1]) /\ Present(found.mongo[1][1])
    /\ SYNC_METADATA_FIELD \in DOMAIN found.pg[1][1]
    /\ "_id" \in DOMAIN found.mongo[1][1]
    /\ NormalPayload(found.pg[1][1]) = NormalPayload(found.mongo[1][1])
    /\ ~Present(found.pg[1][2]) /\ ~Present(found.mongo[1][2])
    /\ pg = found.pg /\ mongo = found.mongo
    /\ stats = EngStats0
    /\ \A w \in DOMAIN writes : writes[w] = 0

\* the keys the scan found on both sides with different normalised payloads
ScanDiffering ==
    {k \in Keys : /\ Present(found.pg[1][k]) /\ Present(found.mongo[1][k])
                  /\ NormalPayload(found.pg[1][k]) # NormalPayload(found.mongo[1][k])}

\* the side the resolver names for key k of the scan
ScanWinner(k) == EngResolveConflict(strategy, found.pg[1][k], found.mongo[1][k])

\* C29: at the end of a bidirectional cycle conflicts is the number of keys
\* held by both sides with different normalised payloads at scan time; for
\* each of them only the loser's store is written (none on skip), the winner's
\* record is as it was, and the direction counters count the writes made
C29_ConflictsCountDifferingKeys ==
    (impl = "engine" /\ direction = "bidirectional" /\ CycleOver /\ found # NoRec) =>
        /\ stats.conflicts = Cardinality(ScanDiffering)
        /\ \A k \in ScanDiffering :
              CASE ScanWinner(k) = "pg" ->
                       /\ writes[<<"mongo", k>>] = 1 /\ writes[<<"pg", k>>] = 0
                       /\ pg[1][k] = found.pg[1][k]
                [] ScanWinner(k) = "mongo" ->
                       /\ writes[<<"pg", k>>] = 1 /\ writes[<<"mongo", k>>] = 0
                       /\ mongo[1][k] = found.mongo[1][k]
                [] OTHER ->
                       /\ writes[<<"pg", k>>] = 0 /\ writes[<<"mongo", k>>] = 0
                       /\ pg[1][k] = found.pg[1][k] /\ mongo[1][k] = found.mongo[1][k]
        /\ stats.pg_to_mongo = Cardinality({k \in Keys : writes[<<"mongo", k>>] = 1})
        /\ stats.mongo_to_pg = Cardinality({k \in Keys : writes[<<"pg", k>>] = 1})

\* a cycle met two differing keys, the table won one and the collection the other
C29_Witness ==
    /\ impl = "engine" /\ direction = "bidirectional" /\ CycleOver
    /\ ScanDiffering = {1, 2}
    /\ ScanWinner(1) = "pg" /\ ScanWinner(2) = "mongo"
    /\ stats = [pg_to_mongo |-> 1, mongo_to_pg |-> 1, conflicts |-> 2, errors |-> 0]
    /\ writes[<<"mongo", 1>>] = 1 /\ writes[<<"pg", 2>>] = 1

\* the fields a converter may put the row's primary key under: the engine's
\* own underscore fields, the native _id excepted
SideChannelFields == UnderscoreFields \ {"_id"}

\* C30: the conversion of a row to document shape stores the primary key under
\* a reserved side-channel field and never sets the native _id, and an upsert
\* leaves a document that was there before with the _id it had
C30_NativeIdIsNeverSet ==
    /\ [](Len(conv) >= 1 =>
            /\ "_id" \notin DOMAIN conv[1]
            /\ \E f \in SideChannelFields : f \in DOMAIN conv[1] /\ conv[1][f] = arg[PK])
    /\ [][(ups' # ups /\ Present(mongo[1][arg.id])) =>
             mongo'[1][arg.id]["_id"] = mongo[1][arg.id]["_id"]]_vars

\* ------------------------------------------------ the tables of a cycle
\* PostgresConnection.get_primary_key: the constraint's column, None without one
DbGetPrimaryKey(m, nopk) == IF m \in nopk THEN "None" ELSE PK

\* SyncEngine._get_primary_key: the constraint's column, 'id' without one
SeqGetPrimaryKey(m, nopk) == IF m \in nopk THEN "id" ELSE PK

\* DataSync._get_tables_to_sync: configured names get the looked-up column or
\* 'id', configured dicts the column they name or 'id' (a dict names the
\* constraint's column when there is one); without configured tables the
\* tables of the database are looked up and those without a column are left out
ResGetTablesToSync(cfg, n, nopk) ==
    LET looked(i) == DbGetPrimaryKey(i, nopk)
        HasKey(t) == t.primary_key # "None"
    IN  IF cfg = "names"
        THEN [i \in 1..n |-> [name |-> i, primary_key |-> IF looked(i) = "None" THEN "id" ELSE looked(i)]]
        ELSE IF cfg = "dicts"
        THEN [i \in 1..n |-> [name |-> i, primary_key |-> IF i \in nopk THEN "id" ELSE PK]]
        ELSE SelectSeq([i \in 1..n |-> [name |-> i, primary_key |-> looked(i)]], HasKey)

\* DataSync.sync_all, entry: the table list is built
ResSyncAll ==
    /\ impl = "resolver"
    /\ pc = "idle"
    /\ tables = <<>>
    /\ cycle < MaxCycles
    /\ cycle' = cycle + 1
    /\ clock' = clock + 1
    /\ tables' = ResGetTablesToSync(tables_cfg, nmap, no_pk)
    /\ visited' = {}
    /\ keyed' = [m \in Mappings |-> "unsynced"]
    /\ UNCHANGED <<callVars, attempt, concVars, found, resVars, schedVars, cfgVars, no_pk, tables_cfg, retryVars, notifVars,
                   pg, mongo, pc, mi, stats, bidirVars, writes, pageVars, results>>

\* DataSync.sync_all, one iteration of `for table_config in tables': sync_table
\* enters sync_postgres_to_mongo with the table's config
ResSyncAllTable ==
    /\ impl = "resolver"
    /\ direction = "postgres_to_mongo"
    /\ pc = "idle"
    /\ tables # <<>>
    /\ LET t == Head(tables)
       IN  /\ mi' = t.name
           /\ tables' = Tail(tables)
           /\ keyed' = [keyed EXCEPT ![t.name] = t.primary_key]
           /\ visited' = visited \cup {t.name}
           /\ IF t.name \in down
              THEN /\ stats' = Bump(ResStats0, "errors")
                   /\ UNCHANGED <<pc, total_rows>>
              ELSE /\ stats' = ResStats0
                   /\ total_rows' = RowCount(pg[t.name])
                   /\ pc' = "page"
    /\ offset' = 0
    /\ pages' = <<>>
    /\ handled' = NotHandled
    /\ writes' = NoWrites
    /\ UNCHANGED <<callVars, attempt, concVars, found, resVars, schedVars, cfgVars, no_pk, tables_cfg, retryVars, notifVars,
                   pg, mongo, bidirVars, clock, cycle, results>>

\* tables with and without a primary-key constraint, configured or discovered;
\* both stores are reachable and the collection takes every document
InitTables ==
    /\ impl \in {"resolver", "seq"}
    /\ direction = "postgres_to_mongo"
    /\ strategy = "latest_wins"
    /\ batch_size \in 1..MaxBatch
    /\ nmap \in 1..MaxMappings
    /\ down = {}
    /\ reject = {}
    /\ no_pk \in SUBSET (1..nmap)
    /\ tables_cfg \in {"names", "dicts", "auto"}
    /\ tables = <<>>
    /\ keyed = [m \in Mappings |-> "unsynced"]
    /\ NoRetryCall
    /\ NoWorker
    /\ \E full \in SUBSET (1..nmap) :
         pg = [m \in Mappings |->
                 IF m \in full THEN [k \in Keys |-> IF k \in RichKeys THEN SourceRow(k, 1, Datetime(1)) ELSE NoRec]
                 ELSE IF m <= nmap THEN [k \in Keys |-> IF k = 1 THEN SourceRow(1, 1, Datetime(1)) ELSE NoRec]
                 ELSE EmptyStore]
    /\ mongo = [m \in Mappings |-> EmptyStore]
    /\ stats = StatsOf(impl)
    /\ arg = NoRec
    /\ IdleState
    /\ NoResolverCall
    /\ NoScheduler

NextTables ==
    \/ ResSyncAll
    \/ ResSyncAllTable
    \/ ResPage
    \/ ResReturn
    \/ SeqSyncAll
    \/ SeqSyncTable
    \/ SeqPage
    \/ SeqSyncAllReturn

SpecTables == InitTables /\ [][NextTables]_vars

\* sync_all has returned
TablesDone == cycle >= 1 /\ pc = "idle" /\ tables = <<>>

\* the key column table m was synchronised under, "unsynced" when it was not
KeyUsed(m) ==
    IF impl = "seq"
    THEN IF m \in visited THEN SeqGetPrimaryKey(m, no_pk) ELSE "unsynced"
    ELSE keyed[m]

\* the errors recorded by the cycle (the resolver keeps the last table's stats)
TableErrors(m) ==
    IF impl = "seq"
    THEN IF results[m] = NoRec THEN 0 ELSE results[m].errors
    ELSE stats.errors

\* C31: when sync_all has returned, every table without a primary-key
\* constraint was synchronised under the key column "id" (it was not skipped)
\* and no error was recorded, whether the tables were configured or discovered
C31_TableWithoutPrimaryKeyIsSynced ==
    TablesDone =>
        \A m \in no_pk : KeyUsed(m) = "id" /\ TableErrors(m) = 0

\* ------------------------------------- sync_with_retry, configured attempts
MaxRetry == 2

\* sync_with_retry with retry_attempts >= 1: `for attempt in range(1,
\* max_attempts + 1)' runs and sync_table is called
MonoFirstAttempt ==
    /\ retry_attempts >= 1
    /\ MonoSyncTable

\* sync_with_retry with retry_attempts < 1: the range is empty, the loop body
\* never runs and the function ends without a return statement; sync_all's log
\* line subscripts the None, which its own except records as the table's error
MonoNoAttempt ==
    /\ impl = "mono"
    /\ pc = "idle"
    /\ cycle < MaxCycles
    /\ mi \notin down
    /\ retry_attempts < 1
    /\ cycle' = cycle + 1
    /\ clock' = clock + 1
    /\ visited' = {}
    /\ retry_out' = "None"
    /\ results' = [results EXCEPT ![mi] = [error |-> 1]]
    /\ UNCHANGED <<callVars, attempt, concVars, found, resVars, schedVars, cfgVars, tableVars, notifVars, retry_attempts, sleeps,
                   pg, mongo, pc, mi, stats, bidirVars, writes, pageVars>>

InitRetryConfig ==
    /\ NoTableList
    /\ NoWorker
    /\ retry_attempts \in 0..MaxRetry
    /\ sleeps = 0
    /\ retry_out = "none"
    /\ impl = "mono"
    /\ direction = PgToMongoName(impl)
    /\ strategy = LatestName(impl)
    /\ batch_size \in 1..MaxBatch
    /\ nmap = 1
    /\ down = {}
    /\ reject \in SUBSET {1, 2}
    /\ \E s1 \in OneWaySources(1), s2 \in OneWaySources(2) :
         /\ pg = [m \in Mappings |-> IF m = 1 THEN StoreOf(<<s1, s2>>) ELSE EmptyStore]
         /\ \E t1 \in OneWayTargets(1, s1), t2 \in OneWayTargets(2, s2) :
              mongo = [m \in Mappings |-> IF m = 1 THEN StoreOf(<<t1, t2>>) ELSE EmptyStore]
    /\ stats = StatsOf(impl)
    /\ arg = NoRec
    /\ IdleState
    /\ NoResolverCall
    /\ NoScheduler

NextRetryConfig ==
    \/ MonoFirstAttempt
    \/ MonoNoAttempt
    \/ MonoPage
    \/ MonoRetry
    \/ MonoSyncAllFails
    \/ MonoReturn

SpecRetryConfig == InitRetryConfig /\ [][NextRetryConfig]_vars

\* the calls of sync_table sync_with_retry has made
RetryCalls == IF visited = {} THEN 0 ELSE attempt

\* sync_with_retry is over
RetryOver == cycle >= 1 /\ pc = "idle"

\* C32: sync_table is called at most retry_attempts times, one delay is slept
\* between two consecutive calls and none after the last, the failure is
\* re-raised only after call number retry_attempts, nothing runs after the
\* function is over, and when it is over it has returned stats or raised
C32_RetryReturnsStatsOrRaises ==
    /\ RetryCalls <= retry_attempts
    /\ sleeps = (IF RetryCalls = 0 THEN 0 ELSE RetryCalls - 1)
    /\ retry_out = "raised" => RetryCalls = retry_attempts
    /\ retry_out # "none" => pc = "idle"
    /\ RetryOver => retry_out \in {"stats", "raised"}

\* ------------------------------------------- stop requests, at any moment
\* run(): `self._running = True', the first statement; run_daemon(): `running
\* = True' and the two signal.signal calls that install the handler
RunEnter ==
    /\ mode = "continuous"
    /\ spc = "entry"
    /\ running' = TRUE
    /\ spc' = "loop"
    /\ UNCHANGED <<mode, interval, ticks, started, stop_at, since_stop, exit_status, attempt, concVars, found,
                   resVars, engineVars, extVars>>

\* stop(), or the signal of run_daemon, whenever it comes and however often:
\* the flag is cleared; before run_daemon has installed its handler the
\* signal has its default disposition and ends the process
RunStopAnytime ==
    /\ mode = "continuous"
    /\ HasStopFlag(impl)
    /\ spc \in {"entry", "loop", "call", "tick", "sleeping"}
    /\ stop_at' = IF Stopped THEN stop_at ELSE IF spc = "entry" THEN "entry" ELSE Phase
    /\ since_stop' = IF Stopped THEN since_stop ELSE [since_stop EXCEPT !.before = visited]
    /\ IF impl = "seq" /\ spc = "entry"
       THEN /\ spc' = "crashed"
            /\ exit_status' = 1
            /\ UNCHANGED running
       ELSE /\ running' = FALSE
            /\ UNCHANGED <<spc, exit_status>>
    /\ UNCHANGED <<mode, interval, ticks, started, attempt, concVars, found, resVars, engineVars, extVars>>

\* the steps of the cycle a loop with a stop flag has called
RunFlagCycleStep ==
    /\ spc = "call"
    /\ pc = "idle" => cycle < started
    /\ \/ EngSyncOnce
       \/ EngPgToMongo
       \/ EngPgToMongoPage
       \/ EngSyncOnceReturn
       \/ SeqSyncAll
       \/ SeqSyncTable
       \/ SeqGetPrimaryKeyRaises
       \/ SeqPage
       \/ SeqSyncAllReturn

\* the engine is constructed (self._running = False) and run() is about to be
\* called; run_daemon is about to be called
InitStop ==
    /\ ExtIdle
    /\ impl \in {"engine", "seq"}
    /\ interval \in {0, MaxInterval}
    /\ mode = "continuous"
    /\ spc = "entry"
    /\ started = 0
    /\ running = FALSE
    /\ ticks = 0
    /\ stop_at = "none"
    /\ since_stop = [ticks |-> 0, cycles |-> 0, before |-> {}]
    /\ exit_status = Null
    /\ direction = PgToMongoName(impl)
    /\ strategy = "latest_wins"
    /\ batch_size = 1
    /\ nmap \in {1, MaxMappings}
    /\ down \in {{}, {nmap}}
    /\ reject \in {{}, {1}}
    /\ pg = [m \in Mappings |-> IF m <= nmap THEN DaemonRows ELSE EmptyStore]
    /\ mongo = [m \in Mappings |-> EmptyStore]
    /\ stats = StatsOf(impl)
    /\ arg = NoRec
    /\ IdleState
    /\ NoResolverCall

NextStop ==
    \/ RunEnter
    \/ RunStopAnytime
    \/ RunLoop
    \/ RunCallRaises
    \/ RunFlagCycleStep
    \/ RunCycleEnds
    \/ RunTick
    \/ RunSleep

SpecStop == InitStop /\ [][NextStop]_vars

\* C33: after a stop request, whenever it was issued, the loop starts no
\* cycle (a cycle in progress when it came may finish)
C33_StopIsNeverLost ==
    Stopped => since_stop.cycles = 0

\* -------------------------------------- one-way sync, in either direction
\* a faulty variant of the dispatch that runs the document-to-relational
\* function whatever the direction
EngDispatchSwapped(dir) ==
    IF dir \in {"pg_to_mongo", "mongo_to_pg"} THEN "sync_mongo_to_pg" ELSE "none"

\* SyncEngine.sync_once: the function the configured direction selects
EngDispatch(dir) ==
    CASE dir = "pg_to_mongo" -> "sync_pg_to_mongo"
      [] dir = "mongo_to_pg" -> "sync_mongo_to_pg"
      [] dir = "bidirectional" -> "sync_bidirectional"
      [] OTHER -> "none"

\* collection.find().skip(skip).limit(limit): the documents of the page,
\* in the collection's order; limit(0) is no limit
FindBatch(store, limit, skip) ==
    IF limit = 0 THEN FetchBatch(store, MaxKey + 1, skip) ELSE FetchBatch(store, limit, skip)

\* SyncEngine.sync_mongo_to_pg, entry: the table's columns are read; a failing
\* query is caught by sync_once, which counts one error and goes on
EngMongoToPg ==
    /\ impl = "engine"
    /\ pc = "mapping"
    /\ mi <= nmap
    /\ EngDispatch(direction) = "sync_mongo_to_pg"
    /\ offset' = 0
    /\ pages' = <<>>
    /\ handled' = NotHandled
    /\ writes' = NoWrites
    /\ visited' = visited \cup {mi}
    /\ IF mi \in down
       THEN /\ stats' = Bump(stats, "errors")
            /\ mi' = mi + 1
            /\ UNCHANGED pc
       ELSE /\ pc' = "docs"
            /\ UNCHANGED <<stats, mi>>
    /\ UNCHANGED <<callVars, attempt, concVars, found, resVars, schedVars, cfgVars, extVars, pg, mongo, bidirVars,
                   clock, cycle, total_rows, results>>

\* SyncEngine.sync_mongo_to_pg, one iteration of `while True': a page of
\* documents is read; a document whose filtered record has no truthy key is
\* passed over, the others are upserted into the table
EngMongoToPgPage ==
    /\ impl = "engine"
    /\ pc = "docs"
    /\ LET docs == FindBatch(mongo[mi], batch_size, offset)
           ks == Range(docs)
           now == Datetime(clock)
           rec(k) == EngPgRecord(mongo[mi][k], now)
           keyed_ks == {k \in ks : PyTruthy(Get(rec(k), PK))}
       IN  /\ pages' = Append(pages, docs)
           /\ IF docs = <<>>
              THEN /\ mi' = mi + 1
                   /\ pc' = "mapping"
                   /\ UNCHANGED <<pg, offset, handled, writes, stats>>
              ELSE /\ pg' = [pg EXCEPT ![mi] =
                         [k \in Keys |-> IF k \in keyed_ks THEN PgUpsertRow(@[k], rec(k)) ELSE @[k]]]
                   /\ stats' = [stats EXCEPT !.mongo_to_pg = @ + Cardinality(keyed_ks)]
                   /\ handled' = CountAll(handled, ks)
                   /\ writes' = WroteAll(writes, "pg", keyed_ks)
                   /\ offset' = offset + Len(docs)
                   /\ UNCHANGED <<mi, pc>>
    /\ UNCHANGED <<callVars, attempt, concVars, found, resVars, schedVars, cfgVars, extVars, mongo, bidirVars,
                   clock, cycle, total_rows, histVars>>

FrameRows(S) == [k \in Keys |-> IF k \in S THEN SourceRow(k, 1, Datetime(1)) ELSE NoRec]
FrameDocs(T) ==
    [k \in Keys |-> IF k \in T THEN [_id |-> ObjectId(k), id |-> k, name |-> 2, updated_at |-> Datetime(2)]
                    ELSE NoRec]

\* the direction names of one-way sync each implementation knows
OneWayDirections(i) == IF i = "engine" THEN {"pg_to_mongo", "mongo_to_pg"} ELSE {"postgres_to_mongo"}

\* one-way cycles over stores that both hold records, under every strategy,
\* with a store that may be unreachable and a collection that may refuse
InitFrame ==
    /\ ExtIdle
    /\ impl \in {"engine", "resolver", "mono"}
    /\ direction \in OneWayDirections(impl)
    /\ strategy \in OneWayStrategies
    /\ batch_size \in 1..MaxBatch
    /\ nmap = 1
    /\ down \in IF impl = "mono" THEN {{}} ELSE {{}, {1}}
    /\ reject \in {{}, {1}}
    /\ \E S \in SUBSET RichKeys, T \in SUBSET RichKeys :
         /\ pg = [m \in Mappings |-> IF m = 1 THEN FrameRows(S) ELSE EmptyStore]
         /\ mongo = [m \in Mappings |-> IF m = 1 THEN FrameDocs(T) ELSE EmptyStore]
    /\ stats = StatsOf(impl)
    /\ arg = NoRec
    /\ IdleState
    /\ NoResolverCall
    /\ NoScheduler

NextFrame ==
    \/ EngSyncOnce
    \/ EngPgToMongo
    \/ EngPgToMongoPage
    \/ EngMongoToPg
    \/ EngMongoToPgPage
    \/ EngSyncOnceReturn
    \/ ResSyncPostgresToMongo
    \/ ResPage
    \/ ResReturn
    \/ MonoSyncTable
    \/ MonoPage
    \/ MonoReturn

SpecFrame == InitFrame /\ [][NextFrame]_vars

ToDocuments == direction \in {"pg_to_mongo", "postgres_to_mongo"}
ToRelational == direction = "mongo_to_pg"

\* C34: no step of a one-way cycle changes the source store: the tables in a
\* relational-to-document cycle, the collections in a document-to-relational one
C34_OneWayNeverWritesItsSource ==
    [][/\ ToDocuments => pg' = pg
       /\ ToRelational => mongo' = mongo]_vars

\* a document-to-relational cycle has written rows, and a relational-to-document
\* cycle has ended with documents written and a refused one counted
C34_Witness ==
    /\ cycle >= 1
    /\ pc = "idle"
    /\ \/ ToRelational /\ \E k \in Keys : writes[<<"pg", k>>] > 0
       \/ ToDocuments /\ stats.errors > 0 /\ \E k \in Keys : writes[<<"mongo", k>>] > 0

\* ------------------------------ the key loop, whatever the iteration order
\* the keys of the two indexes sync_bidirectional builds
ScanKeys == {k \in Keys : Present(pg_rows[k]) \/ Present(mongo_docs[k])}

\* the store the iteration for key k writes, "error" when the resolver
\* raises, "none" when it leaves the key alone
KeyTarget(k) ==
    IF OnlyInTable(k) THEN "mongo"
    ELSE IF OnlyInCollection(k) THEN "pg"
    ELSE IF EngCompare(pg_rows[k]) # EngCompare(mongo_docs[k]) THEN
        LET winner == EngResolveConflict(strategy, pg_rows[k], mongo_docs[k])
        IN  CASE winner = "pg" -> "mongo"
              [] winner = "mongo" -> "pg"
              [] winner = "raise" -> "error"
              [] OTHER -> "none"
    ELSE "none"

\* the outcome of the iterations for the keys of `done', taken in any order
\* from the stores the cycle found
OutcomeOf(done) ==
    LET now == Datetime(clock)
        toMongo == {k \in done : KeyTarget(k) = "mongo" /\ k \notin reject}
        toPg == {k \in done : KeyTarget(k) = "pg"}
    IN  [pg |-> [k \in Keys |-> IF k \in toPg
                                THEN PgUpsertRow(found.pg[mi][k], EngPgRecord(mongo_docs[k], now))
                                ELSE found.pg[mi][k]],
         mongo |-> [k \in Keys |-> IF k \in toMongo
                                   THEN MongoUpsertDoc(found.mongo[mi][k], EngMongoRecord(pg_rows[k], now), k)
                                   ELSE found.mongo[mi][k]],
         stats |-> [pg_to_mongo |-> Cardinality(toMongo),
                    mongo_to_pg |-> Cardinality(toPg),
                    conflicts |-> Cardinality({k \in done : OnBothSides(k) /\ EngCompare(pg_rows[k]) # EngCompare(mongo_docs[k])}),
                    errors |-> Cardinality({k \in done : KeyTarget(k) = "error" \/ (KeyTarget(k) = "mongo" /\ k \in reject)})]]

WritesCarriedOut(store) ==
    Cardinality({x \in Keys \X (1..(MaxKey + 1)) : x[2] <= writes[<<store, x[1]>>]})

\* C36: when sync_postgres_to_mongo has returned, normally or after a caught
\* error, rows_inserted + rows_updated is the number of documents written to
\* the collection during the call
C36_CountedRowsWereWritten ==
    (impl = "resolver" /\ cycle >= 1 /\ pc = "idle") =>
        stats.rows_inserted + stats.rows_updated = WritesCarriedOut("mongo")

\* ------------------------------------------- every record accounted for
\* one-way cycles of the engine over records of every key, 0 included
InitAccount ==
    /\ ExtIdle
    /\ impl = "engine"
    /\ direction \in OneWayDirections(impl)
    /\ strategy = "latest_wins"
    /\ batch_size \in 1..MaxBatch
    /\ nmap = 1
    /\ down = {}
    /\ reject \in {{}, {1}}
    /\ \E S \in SUBSET Keys, T \in SUBSET Keys :
         /\ pg = [m \in Mappings |-> IF m = 1 THEN FrameRows(S) ELSE EmptyStore]
         /\ mongo = [m \in Mappings |-> IF m = 1 THEN FrameDocs(T) ELSE EmptyStore]
    /\ stats = StatsOf(impl)
    /\ arg = NoRec
    /\ IdleState
    /\ NoResolverCall
    /\ NoScheduler

NextAccount ==
    \/ EngSyncOnce
    \/ EngPgToMongo
    \/ EngPgToMongoPage
    \/ EngMongoToPg
    \/ EngMongoToPgPage
    \/ EngSyncOnceReturn

SpecAccount == InitAccount /\ [][NextAccount]_vars

\* the records of the source store the cycle scanned
SourceRecords == IF ToRelational THEN RowCount(found.mongo[1]) ELSE RowCount(found.pg[1])

\* the records the engine's statistics account for: it keeps a counter per
\* direction and one of errors, and none of records passed over
AccountedRecords == stats.pg_to_mongo + stats.mongo_to_pg + stats.errors

\* C37: at the end of a one-way cycle every record of the source is accounted
\* for once: the records synced, passed over and failed add up to the number
\* of records the source held, whatever their keys
C37_EveryRecordIsAccountedFor ==
    (impl = "engine" /\ cycle >= 1 /\ pc = "idle" /\ found # NoRec) =>
        AccountedRecords = SourceRecords

\* ------------------------------------------------ the pagination loop ends
\* one-way table syncs over a static table, with every batch size from 0
InitPaging ==
    /\ ExtIdle
    /\ impl \in {"engine", "resolver", "mono", "pkg"}
    /\ direction = PgToMongoName(impl)
    /\ strategy = LatestName(impl)
    /\ batch_size \in 0..MaxBatch
    /\ nmap = 1
    /\ down = {}
    /\ reject = {}
    /\ \E S \in SUBSET Keys : pg = [m \in Mappings |-> IF m = 1 THEN FrameRows(S) ELSE EmptyStore]
    /\ mongo = [m \in Mappings |-> EmptyStore]
    /\ stats = StatsOf(impl)
    /\ arg = NoRec
    /\ IdleState
    /\ NoResolverCall
    /\ NoScheduler

NextPaging ==
    \/ EngSyncOnce
    \/ EngPgToMongo
    \/ EngPgToMongoPage
    \/ EngSyncOnceReturn
    \/ ResSyncPostgresToMongo
    \/ ResPage
    \/ ResReturn
    \/ MonoSyncTable
    \/ MonoPage
    \/ MonoReturn
    \/ PkgSync
    \/ PkgMapping
    \/ PkgPage
    \/ PkgReturn

\* the thread that runs the sync keeps running: every statement is followed
\* by the next one
FairPaging == InitPaging /\ [][NextPaging]_vars /\ WF_vars(NextPaging)

\* C38: the table sync that was called returns: its pagination loop is left
\* and the caller has the statistics
C38_PaginationTerminates ==
    <>(cycle >= 1 /\ pc \in {"idle", "raised"})

\* ------------------------------------------------- the notification worker
\* NotificationWorker (worker.py) with InMemoryQueue (queue.py): one job, its
\* delivery record, one worker
MaxAttempts == 6

\* everything the sync programs keep, which the worker does not touch
syncVars == <<engineVars, attempt, concVars, found, resVars, schedVars, tableVars, retryVars>>

\* Channel
Channels == {"email", "sms", "push"}

\* NotificationWorker._handle_failure: should_retry, from the attempts it has
\* just incremented
WorkerShouldRetry(attempts, max, retryable) == retryable /\ attempts < max

\* InMemoryQueue.fail: `if retry and job.attempts < job.max_attempts', from the
\* attempts it has just incremented
QueueRequeues(attempts, max, retry) == retry /\ attempts < max

\* RETRY_DELAYS has four steps; the delay of a retry is the step
\* min(attempts - 1, len(RETRY_DELAYS) - 1), counted here from 1
RetryDelaySteps == 4
RetryDelay(attempts) == IF attempts - 1 < RetryDelaySteps - 1 THEN attempts ELSE RetryDelaySteps

\* time passes: the entry's process_at comes one step nearer
QueueRetryDue ==
    /\ queue_entry > 0
    /\ queue_entry' = queue_entry - 1
    /\ UNCHANGED <<syncVars, job, worker_channel, in_jobs, delivery, wpc, sends, outcomes>>

\* _process_next and _process_job up to the provider call: the job is popped
\* from its channel's list (it stays in jobs) and the record is set to SENDING
WorkerDequeue ==
    /\ wpc = "idle"
    /\ worker_channel \in {"all", job.channel}
    /\ queue_entry = 0
    /\ queue_entry' = Null
    /\ delivery' = [delivery EXCEPT !.status = "sending"]
    /\ wpc' = "sending"
    /\ UNCHANGED <<syncVars, job, worker_channel, in_jobs, sends, outcomes>>

\* the rest of _process_job: a check before the send fails ("invalid": no
\* provider, bad recipient, template error) or the provider is called and
\* succeeds or fails; _handle_success or _handle_failure, and the queue's
\* complete or fail, which works on the same job object
WorkerFinish(out) ==
    /\ wpc = "sending"
    /\ wpc' = "idle"
    /\ outcomes' = outcomes \cup {out}
    /\ sends' = IF out = "invalid" THEN sends ELSE sends + 1
    /\ IF out = "success"
       THEN /\ delivery' = [delivery EXCEPT !.status = "sent"]
            /\ in_jobs' = FALSE
            /\ UNCHANGED <<job, queue_entry>>
       ELSE LET counted == job.attempts + 1
                should_retry == WorkerShouldRetry(counted, job.max_attempts, out = "retryable")
                recounted == IF in_jobs THEN counted + 1 ELSE counted
            IN  /\ delivery' = IF should_retry
                             THEN [delivery EXCEPT !.attempts = counted]
                             ELSE [delivery EXCEPT !.status = "failed"]
                /\ job' = [job EXCEPT !.attempts = recounted]
                /\ IF in_jobs /\ QueueRequeues(recounted, job.max_attempts, should_retry)
                   THEN queue_entry' = RetryDelay(counted) /\ UNCHANGED in_jobs
                   ELSE in_jobs' = FALSE /\ UNCHANGED queue_entry
    /\ UNCHANGED <<syncVars, worker_channel>>

\* a job has been enqueued, at once or with a delay, with its delivery record
InitWorker ==
    /\ job \in [channel : Channels, attempts : {0}, max_attempts : 1..MaxAttempts]
    /\ worker_channel \in Channels \cup {"all"}
    /\ queue_entry \in {0, 1}
    /\ in_jobs = TRUE
    /\ delivery = [status |-> "pending", attempts |-> 0]
    /\ wpc = "idle"
    /\ sends = 0
    /\ outcomes = {}
    /\ NoTableList
    /\ NoRetryCall
    /\ impl = "engine"
    /\ direction = PgToMongoName(impl)
    /\ strategy = "latest_wins"
    /\ batch_size = 1
    /\ nmap = 1
    /\ down = {}
    /\ reject = {}
    /\ pg = [m \in Mappings |-> EmptyStore]
    /\ mongo = [m \in Mappings |-> EmptyStore]
    /\ stats = StatsOf(impl)
    /\ arg = NoRec
    /\ IdleState
    /\ NoResolverCall
    /\ NoScheduler

NextWorker ==
    \/ QueueRetryDue
    \/ WorkerDequeue
    \/ \E out \in {"success", "retryable", "permanent", "invalid"} : WorkerFinish(out)

SpecWorker == InitWorker /\ [][NextWorker]_vars

\* the job is gone from the queue: in no channel list, not in jobs, not with
\* the worker
JobGone == wpc = "idle" /\ queue_entry = Null /\ ~in_jobs

\* C39: a job whose sends all failed retryably is gone only after exactly
\* max_attempts sends and with its record FAILED, and no job is gone while
\* its record is left SENDING
C39_JobIsSentMaxAttemptsTimes ==
    (JobGone /\ worker_channel \in {"all", job.channel}) =>
        /\ outcomes = {"retryable"} => (sends = job.max_attempts /\ delivery.status = "failed")
        /\ delivery.status # "sending"

====
